---------------------------- MODULE Spec2Model ----------------------------
(* Lifecycle orchestrator (Client), staleness engine and migration engine  *)
(* of the function project manager.                                         *)
EXTENDS Integers, Sequences, FiniteSets, TLC

VARIABLES
    mf,      \* migration engine: the in-memory Function handed to Migrate
    mfile,   \* migration engine: the descriptor file at mf.Root
    mnow,    \* migration engine: what time.Now() returns
    mres,    \* migration engine: result of the last Migrate call
    mprev,   \* migration engine: result of the Migrate call before that
    rin,     \* Remove: its arguments (cfg.Name, deleteAll)
    rfile,   \* Remove: the descriptor file at cfg.Root
    rm,      \* Remove: the call's control state, locals and channel
    fs,      \* lifecycle: the project root on disk (entries, descriptor, stamp)
    clock,   \* lifecycle: the filesystem clock
    last,    \* lifecycle: the last operation, its inputs and what it returned
    dirty,   \* lifecycle: entries created or modified since the last built state
    wop,     \* cancellation: the operation invoked and the Client's verbose flag
    wpc,     \* cancellation: the main flow's position in the operation
    wctx,    \* cancellation: the context, "live" or "done"
    tasks,   \* cancellation: the background tasks started, in order
    reporter,\* cancellation: what the ProgressListener was told
    wret     \* cancellation: what the operation returned

mvars == <<mf, mfile, mnow, mres, mprev>>

rvars == <<rin, rfile, rm>>

lvars == <<fs, clock, last, dirty>>

wvars == <<wop, wpc, wctx, tasks, reporter, wret>>

vars == <<mf, mfile, mnow, mres, mprev, rin, rfile, rm, fs, clock, last, dirty,
          wop, wpc, wctx, tasks, reporter, wret>>

(***************************************************************************)
(* Errors.  A Go error is modelled by its message, a sequence of tokens;   *)
(* the nil error is the empty sequence.                                    *)
(***************************************************************************)
Nil == << >>

ErrReadFile == <<"open func.yaml: no such file">>

ErrUnmarshal == <<"yaml: unmarshal errors">>

(***************************************************************************)
(* Semantic versions (github.com/coreos/go-semver).  The empty version     *)
(* string is the record with set = FALSE.                                  *)
(***************************************************************************)
Ver(ma, mi, pa, pre) == [set |-> TRUE, major |-> ma, minor |-> mi, patch |-> pa, pre |-> pre]

EmptyVersion == [set |-> FALSE, major |-> 0, minor |-> 0, patch |-> 0, pre |-> ""]

DefaultVersion == Ver(0, 0, 0, "")

\* semver.Version.LessThan: major, minor, patch in turn, then the
\* pre-release: a version with a pre-release is below the same version
\* without one.
LessThan(a, b) ==
    IF a.major # b.major THEN a.major < b.major
    ELSE IF a.minor # b.minor THEN a.minor < b.minor
    ELSE IF a.patch # b.patch THEN a.patch < b.patch
    ELSE a.pre # "" /\ b.pre = ""


(***************************************************************************)
(* The Function (Descriptor) and its descriptor file.                      *)
(* Created = 0 is the zero time.  BuilderImages is a map, here a function  *)
(* whose domain is the set of keys present (the nil map is the empty one). *)
(***************************************************************************)
NoImages == [k \in {} |-> ""]

PackImage(img) == [k \in {"pack"} |-> img]

\* The default pack builder image named by migrateToBuilderImages.
defaultPackBuilderImage == "gcr.io/paketo-buildpacks/builder:base"

CustomBuilderImage == "example.com/custom/builder"

\* The descriptor file, by the keys the loaders read.  kind abstracts the
\* bytes: "absent" (no file: ReadFile fails), "badyaml" (parses under no
\* schema), "bad100" (parses, except under the pre-1.0.0 schema of
\* migrateTo100_previousFunction), "ok" (parses under every schema).
\* Builder, BuilderImages and BuildType are the top-level keys `builder`,
\* `builderImages` and `build` of the schemas before 1.0.0.
FileKinds == {"absent", "badyaml", "bad100", "ok"}

\* ioutil.ReadFile followed by yaml.Unmarshal into the builder-images schema.
ReadBuilderSchema(file) ==
    IF file.kind = "absent" THEN [err |-> ErrReadFile, Builder |-> ""]
    ELSE IF file.kind = "badyaml" THEN [err |-> ErrUnmarshal, Builder |-> ""]
    ELSE [err |-> Nil, Builder |-> file.Builder]

\* ioutil.ReadFile followed by yaml.Unmarshal into the pre-1.0.0 schema.
Read100Schema(file) ==
    IF file.kind = "absent"
      THEN [err |-> ErrReadFile, BuilderImages |-> NoImages, BuildType |-> ""]
    ELSE IF file.kind \in {"badyaml", "bad100"}
      THEN [err |-> ErrUnmarshal, BuilderImages |-> NoImages, BuildType |-> ""]
    ELSE [err |-> Nil, BuilderImages |-> file.BuilderImages, BuildType |-> file.BuildType]

(***************************************************************************)
(* Migration engine                                                        *)
(***************************************************************************)
\* The registry: thresholds in ascending order.
migrations ==
    << [version |-> Ver(0, 19, 0, ""), migrate |-> "migrateToCreationStamp"],
       [version |-> Ver(0, 23, 0, ""), migrate |-> "migrateToBuilderImages"],
       [version |-> Ver(1, 0, 0, ""),  migrate |-> "migrateTo100Structure"] >>

\* A Migrated that asks for a version above the last threshold.
MigratedOnlyAbove(f) ==
    IF ~f.Version.set THEN FALSE
    ELSE LessThan(migrations[Len(migrations)].version, f.Version)

\* Function.Migrated
Migrated(f) ==
    IF ~f.Version.set THEN FALSE
    ELSE ~LessThan(f.Version, migrations[Len(migrations)].version)

\* A migrateToCreationStamp that stamps every named Function.
migrateToCreationStampAlways(f, m, file, now) ==
    LET f1 == IF f.Name # "" /\ f.Runtime # ""
                THEN [f EXCEPT !.Created = now]
                ELSE f
    IN  [f |-> [f1 EXCEPT !.Version = m.version], err |-> Nil]

\* migrateToCreationStamp(f, m); now is time.Now()
migrateToCreationStamp(f, m, file, now) ==
    LET f1 == IF f.Created = 0 /\ f.Name # "" /\ f.Runtime # ""
                THEN [f EXCEPT !.Created = now]
                ELSE f
    IN  [f |-> [f1 EXCEPT !.Version = m.version], err |-> Nil]

\* A migrateToBuilderImages that stamps the version before reading the file.
migrateToBuilderImagesStampsFirst(f1, m, file, now) ==
    LET f0 == ReadBuilderSchema(file)
        fv == [f1 EXCEPT !.Version = m.version]
    IN  IF f0.err # Nil THEN [f |-> fv, err |-> f0.err]
        ELSE IF f0.Builder # "" /\ f0.Builder # defaultPackBuilderImage
          THEN [f |-> [fv EXCEPT !.BuilderImages =
                          [k \in DOMAIN fv.BuilderImages \cup {"pack"} |->
                              IF k = "pack" THEN f0.Builder ELSE fv.BuilderImages[k]]],
                err |-> Nil]
        ELSE [f |-> fv, err |-> Nil]

\* migrateToBuilderImages(f1, m)
migrateToBuilderImages(f1, m, file, now) ==
    LET f0 == ReadBuilderSchema(file)
    IN  IF f0.err # Nil THEN [f |-> f1, err |-> f0.err]
        ELSE IF f0.Builder # "" /\ f0.Builder # defaultPackBuilderImage
          THEN [f |-> [f1 EXCEPT !.BuilderImages =
                          [k \in DOMAIN f1.BuilderImages \cup {"pack"} |->
                              IF k = "pack" THEN f0.Builder ELSE f1.BuilderImages[k]],
                                 !.Version = m.version],
                err |-> Nil]
        ELSE [f |-> [f1 EXCEPT !.Version = m.version], err |-> Nil]

\* A migrateTo100Structure that forgets to record its version.
migrateTo100StructureNoVersion(f1, m, file, now) ==
    LET f0 == Read100Schema(file)
    IN  IF f0.err # Nil THEN [f |-> f1, err |-> f0.err]
        ELSE [f |-> [f1 EXCEPT !.BuildType = f0.BuildType,
                               !.BuilderImages = f0.BuilderImages],
              err |-> Nil]

\* migrateTo100Structure(f1, m).  Of the fields it copies from the old
\* top-level keys the model keeps Build.BuildType and Build.BuilderImages.
migrateTo100Structure(f1, m, file, now) ==
    LET f0 == Read100Schema(file)
    IN  IF f0.err # Nil THEN [f |-> f1, err |-> f0.err]
        ELSE [f |-> [f1 EXCEPT !.BuildType = f0.BuildType,
                               !.BuilderImages = f0.BuilderImages,
                               !.Version = m.version],
              err |-> Nil]

\* m.migrate(migrated, m): the call through the registry entry.
RunMigrator(m, f, file, now) ==
    CASE m.migrate = "migrateToCreationStamp" -> migrateToCreationStamp(f, m, file, now)
      [] m.migrate = "migrateToBuilderImages" -> migrateToBuilderImages(f, m, file, now)
      [] m.migrate = "migrateTo100Structure"  -> migrateTo100Structure(f, m, file, now)

\* A guard that also re-applies a migration at its own version.
AppliesAtOrBelow(f, m) == ~LessThan(m.version, f.Version)

\* A guard that applies every migration.
AppliesAlways(f, m) == TRUE

\* The guard of the loop of Migrate: the migration is applied when the
\* Function's current version is less than the migration's.
Applies(f, m) == LessThan(f.Version, m.version)

\* The loop of Migrate from registry index i on.  applied lists, for each
\* migration whose transformation ran and succeeded, its registry index and
\* the version the Function had after it; failed is the index of the one
\* that returned an error (0 if none).
RECURSIVE MigrateLoop(_, _, _, _, _)
MigrateLoop(migrated, i, applied, file, now) ==
    IF i > Len(migrations)
      THEN [f |-> migrated, err |-> Nil, applied |-> applied, failed |-> 0]
    ELSE IF ~Applies(migrated, migrations[i])
      THEN MigrateLoop(migrated, i + 1, applied, file, now)
    ELSE LET r == RunMigrator(migrations[i], migrated, file, now)
         IN  IF r.err # Nil
               THEN [f |-> r.f, err |-> r.err, applied |-> applied, failed |-> i]
               ELSE MigrateLoop(r.f, i + 1,
                                Append(applied, [index |-> i, version |-> r.f.Version]),
                                file, now)

\* Function.Migrate
Migrate(f, file, now) ==
    IF Migrated(f)
      THEN [f |-> f, err |-> Nil, applied |-> << >>, failed |-> 0]
    ELSE LET f0 == IF ~f.Version.set THEN [f EXCEPT !.Version = DefaultVersion] ELSE f
         IN  MigrateLoop(f0, 1, << >>, file, now)

(***************************************************************************)
(* Loading the Descriptor (function.go).                                   *)
(***************************************************************************)
DefaultBuildType == "local"

\* A result that applied no migration and carries no error.
NoResult(f) == [f |-> f, err |-> Nil, applied |-> << >>, failed |-> 0]

\* The Function NewFunction starts from: only Root and the build type set.
EmptyFunction(path) ==
    [ Root |-> path, Version |-> EmptyVersion, Name |-> "", Runtime |-> "",
      Image |-> "", ImageDigest |-> "", Created |-> 0,
      BuilderImages |-> NoImages, BuildType |-> DefaultBuildType ]

\* yaml.Unmarshal of the descriptor file into the current Function type.
Unmarshal(path, file) ==
    [ Root |-> path, Version |-> file.Version, Name |-> file.Name,
      Runtime |-> file.Runtime, Image |-> file.Image,
      ImageDigest |-> file.ImageDigest, Created |-> file.Created,
      BuilderImages |-> file.BuildBuilderImages,
      BuildType |-> IF file.BuildBuildType = "" THEN DefaultBuildType
                    ELSE file.BuildBuildType ]

\* NewFunction(path): the Function at path, loaded from the descriptor file
\* and passed through Migrate; with no descriptor file, the empty Function.
NewFunction(path, file, now) ==
    IF file.kind = "absent" THEN NoResult(EmptyFunction(path))
    ELSE IF file.kind = "badyaml"
      THEN [NoResult(EmptyFunction(path)) EXCEPT !.err = ErrUnmarshal]
    ELSE Migrate(Unmarshal(path, file), file, now)

\* Function.Initialized: a runtime and a name are recorded.
Initialized(f) == f.Runtime # "" /\ f.Name # ""

\* Function.HasImage
HasImage(f) == f.Image # ""

(***************************************************************************)
(* Each specification below drives one part of the program; the variables  *)
(* of the other parts stay at these values.                                *)
(***************************************************************************)
NoFile ==
    [ kind |-> "absent", Version |-> EmptyVersion, Name |-> "", Runtime |-> "",
      Image |-> "", ImageDigest |-> "", Created |-> 0, Builder |-> "",
      BuilderImages |-> NoImages, BuildType |-> "",
      BuildBuilderImages |-> NoImages, BuildBuildType |-> "" ]

RemoveIdle ==
    /\ rin = [Name |-> "", deleteAll |-> FALSE]
    /\ rfile = NoFile
    /\ rm = [pc |-> "idle"]

LifecycleIdle ==
    /\ fs = [yaml |-> NoFile]
    /\ clock = 0
    /\ last = [op |-> "idle"]
    /\ dirty = {}

WatchIdle ==
    /\ wop = [op |-> "idle", verbose |-> FALSE]
    /\ wpc = [at |-> 0, inflight |-> FALSE]
    /\ wctx = "live"
    /\ tasks = << >>
    /\ reporter = [stopping |-> 0, beats |-> 0]
    /\ wret = [done |-> FALSE, err |-> Nil, outcome |-> Nil]

MigrateIdle ==
    /\ mf = EmptyFunction("")
    /\ mfile = NoFile
    /\ mnow = 0
    /\ mres = [n |-> 0]
    /\ mprev = [n |-> 0]

(***************************************************************************)
(* Specification of the migration engine alone: Migrate applied to a       *)
(* Function value and a descriptor file drawn from bounded sets, and then  *)
(* again to its own result.                                                *)
(***************************************************************************)
ProjectRoot == "/p"

\* Another place a project may be at.
OtherRoot == "/q"

MaxNow == 3

MaxMigrateCalls == 3

MVersions ==
    { EmptyVersion, Ver(0, 0, 0, ""), Ver(0, 19, 0, ""), Ver(0, 20, 0, ""),
      Ver(0, 23, 0, ""), Ver(1, 0, 0, "rc"), Ver(1, 0, 0, ""), Ver(1, 1, 0, "") }

MFunctions ==
    [ Root : {ProjectRoot}, Version : MVersions, Name : {"", "f"},
      Runtime : {"", "go"}, Image : {""}, ImageDigest : {""},
      Created : {0, 1}, BuilderImages : {NoImages, PackImage("mem/pack")},
      BuildType : {"local"} ]

MFiles ==
    [ kind : FileKinds, Version : {EmptyVersion}, Name : {"f"}, Runtime : {"go"},
      Image : {""}, ImageDigest : {""}, Created : {0},
      Builder : {"", defaultPackBuilderImage, CustomBuilderImage},
      BuilderImages : {NoImages, PackImage("file/pack")},
      BuildType : {"", "git"},
      BuildBuilderImages : {NoImages}, BuildBuildType : {""} ]

MigrateInit ==
    /\ mf \in MFunctions
    /\ mfile \in MFiles
    /\ mnow = 2
    /\ mres = [n |-> 0, in |-> mf, at |-> mnow, out |-> NoResult(mf)]
    /\ mprev = mres
    /\ RemoveIdle
    /\ LifecycleIdle
    /\ WatchIdle

\* f.Migrate() on the Function drawn; at is the time of the call.
MigrateCall ==
    /\ mres.n = 0
    /\ mres' = [n |-> 1, in |-> mf, at |-> mnow, out |-> Migrate(mf, mfile, mnow)]
    /\ mprev' = mres
    /\ UNCHANGED <<mf, mfile, mnow>>
    /\ UNCHANGED rvars
    /\ UNCHANGED lvars
    /\ UNCHANGED wvars

\* Migrate() on the result of a Migrate that returned no error.
MigrateAgain ==
    /\ mres.n >= 1
    /\ mres.n < MaxMigrateCalls
    /\ mres.out.err = Nil
    /\ mres' = [n |-> mres.n + 1, in |-> mres.out.f, at |-> mnow,
                out |-> Migrate(mres.out.f, mfile, mnow)]
    /\ mprev' = mres
    /\ UNCHANGED <<mf, mfile, mnow>>
    /\ UNCHANGED rvars
    /\ UNCHANGED lvars
    /\ UNCHANGED wvars

\* Time passes between calls.
MigrateTick ==
    /\ mnow < MaxNow
    /\ mnow' = mnow + 1
    /\ UNCHANGED <<mf, mfile, mres, mprev>>
    /\ UNCHANGED rvars
    /\ UNCHANGED lvars
    /\ UNCHANGED wvars

MigrateNext == MigrateCall \/ MigrateAgain \/ MigrateTick

SpecMigrate == MigrateInit /\ [][MigrateNext]_vars

\* The version a Function is read at: empty is 0.0.0.
OrDefault(v) == IF v.set THEN v ELSE DefaultVersion

LastThreshold == migrations[Len(migrations)].version

\* The registry indexes whose threshold is strictly above v, ascending.
IndexesAbove(v) ==
    SelectSeq([i \in 1..Len(migrations) |-> i],
              LAMBDA i : LessThan(v, migrations[i].version))

AppliedIndexes(out) == [k \in 1..Len(out.applied) |-> out.applied[k].index]

\* C7: a Migrate without error on version v applied exactly the migrations
\* with threshold strictly above v (empty v read as 0.0.0), ascending, each
\* once, the version being the migration's threshold after each step; the
\* result is at the last threshold when v was below it, and a Function whose
\* non-empty version is not below the last threshold comes back unchanged.
C7_MigrateAppliesThoseAbove ==
    (mres.n >= 1 /\ mres.out.err = Nil) =>
        LET v == OrDefault(mres.in.Version)
            out == mres.out
        IN  /\ AppliedIndexes(out) = IndexesAbove(v)
            /\ \A k \in 1..Len(out.applied) :
                   out.applied[k].version = migrations[out.applied[k].index].version
            /\ LessThan(v, LastThreshold) => out.f.Version = LastThreshold
            /\ (mres.in.Version.set /\ ~LessThan(mres.in.Version, LastThreshold))
                   => (out.f = mres.in /\ out.applied = << >>)

\* A Migrate from between two thresholds applied the last two migrations.
C7_Witness ==
    /\ mres.n = 1
    /\ mres.out.err = Nil
    /\ mres.in.Version = Ver(0, 20, 0, "")
    /\ Len(mres.out.applied) = 2

\* C9: Migrate on the result of a successful Migrate applies no
\* transformation and returns that Function unchanged in every field.
C9_MigrateTwiceIsNoOp ==
    mres.n >= 2 =>
        /\ mres.in = mprev.out.f
        /\ mres.out.err = Nil
        /\ mres.out.applied = << >>
        /\ mres.out.f = mres.in

\* The second Migrate follows one that applied the whole chain.
C9_Witness ==
    /\ mres.n = 2
    /\ Len(mprev.out.applied) = Len(migrations)
    /\ mnow > 2

\* The Function after applying the migrations listed in idxs, in order.
RECURSIVE AfterSteps(_, _, _, _)
AfterSteps(f, idxs, file, now) ==
    IF idxs = << >> THEN f
    ELSE AfterSteps(RunMigrator(migrations[Head(idxs)], f, file, now).f,
                    Tail(idxs), file, now)

C10_ErrorState ==
    (mres.n >= 1 /\ mres.out.err # Nil) =>
        LET out == mres.out
            start == [mres.in EXCEPT !.Version = OrDefault(mres.in.Version)]
        IN  /\ out.failed \in 1..Len(migrations)
            /\ out.err = RunMigrator(migrations[out.failed], out.f, mfile, mres.at).err
            /\ \A k \in 1..Len(out.applied) : out.applied[k].index < out.failed
            /\ out.f = AfterSteps(start, AppliedIndexes(out), mfile, mres.at)
            /\ out.f.Version =
                  IF out.applied = << >> THEN start.Version
                  ELSE migrations[out.applied[Len(out.applied)].index].version

\* C10: when a transformation returns an error, Migrate applies no later
\* migration and returns that error with the Function as it was after the
\* last successful step, its version the threshold of the last migration
\* applied (the starting version if none was); and no Migrate call changes
\* the descriptor file.
C10_MigrateFailsFast ==
    /\ [](C10_ErrorState)
    /\ [][(MigrateCall \/ MigrateAgain) => mfile' = mfile]_vars

\* The 1.0.0 migration failed after the two before it were applied.
C10_Witness ==
    /\ mres.n = 1
    /\ mres.out.err = ErrUnmarshal
    /\ mres.out.failed = 3
    /\ Len(mres.out.applied) = 2

(***************************************************************************)
(* Client.Remove: the main flow, and the goroutine that removes the        *)
(* service and delivers its result on the unbuffered errChan.              *)
(***************************************************************************)
ProjectName == "f"

ErrService == <<"service", "not", "removed">>

ErrResources == <<"pipeline", "not", "removed">>

ErrNotInitialized == <<"Function", "can", "not", "be", "removed", "unless", "initialized">>

\* A descriptor file as Function.Write leaves it.
WrittenFile(name, runtime, image) ==
    [ kind |-> "ok", Version |-> LastThreshold, Name |-> name, Runtime |-> runtime,
      Image |-> image, ImageDigest |-> "", Created |-> 1, Builder |-> "",
      BuilderImages |-> NoImages, BuildType |-> "",
      BuildBuilderImages |-> NoImages, BuildBuildType |-> DefaultBuildType ]

RemoveFiles ==
    { NoFile, WrittenFile(ProjectName, "go", ""), WrittenFile("", "", ""),
      [WrittenFile(ProjectName, "go", "") EXCEPT !.kind = "badyaml"] }

RemoveInit ==
    /\ rin \in [Name : {"", "g"}, deleteAll : BOOLEAN]
    /\ rfile \in RemoveFiles
    /\ rm = [ pc |-> "start", g |-> "none", name |-> "", chan |-> Nil,
              svcResult |-> Nil, pipeResult |-> Nil, errResources |-> Nil,
              ret |-> Nil, log |-> << >> ]
    /\ MigrateIdle
    /\ LifecycleIdle
    /\ WatchIdle

\* fmt.Errorf("%s\n%s", errService, errResources)
Errorf2(a, b) == a \o <<"\n">> \o b

\* A result that reports the service error alone whenever there is one.
RemoveResultServiceFirst(errService, errResources) ==
    IF errService # Nil THEN errService ELSE errResources

\* The value Remove returns, from the two results.
RemoveResult(errService, errResources) ==
    IF errService # Nil /\ errResources # Nil THEN Errorf2(errService, errResources)
    ELSE IF errResources # Nil THEN errResources
    ELSE errService

\* The name is resolved (cfg.Name, else the Function loaded from cfg.Root),
\* and the goroutine that will call the Remover is started.
RemoveStart ==
    /\ rm.pc = "start"
    /\ LET loaded == NewFunction(ProjectRoot, rfile, 1)
       IN  IF rin.Name = "" /\ loaded.err # Nil
             THEN rm' = [rm EXCEPT !.pc = "returned", !.ret = loaded.err]
           ELSE IF rin.Name = "" /\ ~Initialized(loaded.f)
             THEN rm' = [rm EXCEPT !.pc = "returned", !.ret = ErrNotInitialized]
           ELSE rm' = [rm EXCEPT !.pc = IF rin.deleteAll THEN "pipeline" ELSE "recv",
                                 !.g = "ready",
                                 !.name = IF rin.Name = "" THEN loaded.f.Name ELSE rin.Name]
    /\ UNCHANGED <<rin, rfile>>
    /\ UNCHANGED mvars
    /\ UNCHANGED wvars
    /\ UNCHANGED lvars

\* The goroutine calls c.remover.Remove(ctx, functionName).
RemoverCall ==
    /\ rm.g = "ready"
    /\ rm' = [rm EXCEPT !.g = "calling", !.log = Append(@, "svc.start")]
    /\ UNCHANGED <<rin, rfile>>
    /\ UNCHANGED mvars
    /\ UNCHANGED wvars
    /\ UNCHANGED lvars

\* The Remover returns; the goroutine offers its result on errChan.
RemoverReturn ==
    /\ rm.g = "calling"
    /\ \E e \in {Nil, ErrService} :
           rm' = [rm EXCEPT !.g = "sending", !.chan = e, !.svcResult = e,
                            !.log = Append(@, "svc.end")]
    /\ UNCHANGED <<rin, rfile>>
    /\ UNCHANGED mvars
    /\ UNCHANGED wvars
    /\ UNCHANGED lvars

\* deleteAll: the main flow calls c.pipelinesProvider.Remove(ctx, cfg).
PipelineCall ==
    /\ rm.pc = "pipeline"
    /\ rm' = [rm EXCEPT !.pc = "pipelineCalling", !.log = Append(@, "pipe.start")]
    /\ UNCHANGED <<rin, rfile>>
    /\ UNCHANGED mvars
    /\ UNCHANGED wvars
    /\ UNCHANGED lvars

\* The PipelinesProvider returns errResources.
PipelineReturn ==
    /\ rm.pc = "pipelineCalling"
    /\ \E e \in {Nil, ErrResources} :
           rm' = [rm EXCEPT !.pc = "recv", !.errResources = e, !.pipeResult = e,
                            !.log = Append(@, "pipe.end")]
    /\ UNCHANGED <<rin, rfile>>
    /\ UNCHANGED mvars
    /\ UNCHANGED wvars
    /\ UNCHANGED lvars

\* A main flow that awaits the service result only when deleteAll is set.
RemoveJoinOnlyWhenDeleteAll ==
    /\ rm.pc = "recv"
    /\ IF rin.deleteAll
         THEN /\ rm.g = "sending"
              /\ rm' = [rm EXCEPT !.pc = "returned", !.g = "done",
                                  !.ret = RemoveResult(rm.chan, rm.errResources)]
         ELSE rm' = [rm EXCEPT !.pc = "returned",
                               !.ret = RemoveResult(Nil, rm.errResources)]
    /\ UNCHANGED <<rin, rfile>>
    /\ UNCHANGED mvars
    /\ UNCHANGED wvars
    /\ UNCHANGED lvars

\* errService := <-errChan, the rendezvous with the goroutine's send, after
\* which the goroutine ends and Remove returns the combined result.
RemoveJoin ==
    /\ rm.pc = "recv"
    /\ rm.g = "sending"
    /\ rm' = [rm EXCEPT !.pc = "returned", !.g = "done",
                        !.ret = RemoveResult(rm.chan, rm.errResources)]
    /\ UNCHANGED <<rin, rfile>>
    /\ UNCHANGED mvars
    /\ UNCHANGED wvars
    /\ UNCHANGED lvars

RemoveNext ==
    \/ RemoveStart
    \/ RemoverCall
    \/ RemoverReturn
    \/ PipelineCall
    \/ PipelineReturn
    \/ RemoveJoin

SpecRemove == RemoveInit /\ [][RemoveNext]_vars

\* The goroutine scheduler runs every runnable goroutine, and the
\* collaborators return.
SpecRemoveFair == SpecRemove /\ WF_vars(RemoveNext)

\* The message sub occurs in the message msg.
Contains(msg, sub) ==
    \E i \in 0..(Len(msg) - Len(sub)) : SubSeq(msg, i + 1, i + Len(sub)) = sub

\* C5: with deleteAll, Remove returns one error holding both messages when
\* both removals fail, exactly the service error when only the service
\* removal fails, exactly the pipeline error when only the pipeline removal
\* fails, and success only when both succeed.
C5_RemoveAggregatesErrors ==
    (rm.pc = "returned" /\ rin.deleteAll /\ rm.g = "done") =>
        LET a == rm.svcResult
            b == rm.pipeResult
        IN  /\ (a # Nil /\ b # Nil) =>
                  (rm.ret # Nil /\ Contains(rm.ret, a) /\ Contains(rm.ret, b))
            /\ (a # Nil /\ b = Nil) => rm.ret = a
            /\ (a = Nil /\ b # Nil) => rm.ret = b
            /\ (rm.ret = Nil) <=> (a = Nil /\ b = Nil)

\* Both removals failed and Remove has returned.
C5_Witness ==
    /\ rm.pc = "returned"
    /\ rin.deleteAll
    /\ rm.svcResult = ErrService
    /\ rm.pipeResult = ErrResources

C6_ReturnsAfterBoth ==
    (rm.pc = "returned" /\ rm.name # "") =>
        /\ rm.g = "done"
        /\ \E i \in 1..Len(rm.log) : rm.log[i] = "svc.end"
        /\ rin.deleteAll => \E i \in 1..Len(rm.log) : rm.log[i] = "pipe.end"

\* C6: once the target is resolved Remove returns only after the service
\* removal has completed, and with deleteAll only after the pipeline removal
\* has completed too; the goroutine that offers the service result is always
\* relieved of it, with deleteAll or without.
C6_RemoveJoinsBoth ==
    /\ [](C6_ReturnsAfterBoth)
    /\ (rm.g = "sending") ~> (rm.g = "done")
    /\ (rm.g = "ready") ~> (rm.pc = "returned")

\* The two removals overlapped: the pipeline removal started first and the
\* service removal finished first.
C6_Witness ==
    /\ rm.pc = "returned"
    /\ rm.log = <<"pipe.start", "svc.start", "svc.end", "pipe.end">>

(***************************************************************************)
(* The project root on disk.                                               *)
(* fs.mtime maps each existing entry (a path relative to the root, "."     *)
(* the root itself) to its modification time; fs.yaml is the descriptor    *)
(* file, fs.stamp the content of the build stamp, fs.locked whether the    *)
(* stamp file refuses to be opened.                                        *)
(***************************************************************************)
RunDataDir == ".func"

GitDir == ".git"

FunctionFile == "func.yaml"

GitIgnore == ".gitignore"

SourceFile == "main.go"

\* filepath.Join(RunDataDir, buildstamp)
BuildStampPath == ".func/built"

\* Files of any name the user may keep in the root: two plain ones and one
\* whose name holds colons and a digit.
FileA == "a"

ColonFile == "a:1:b"

FileB == "b"

GitHead == ".git/HEAD"

\* Every entry the model knows, in the order filepath.Walk visits them:
\* depth first, the names of a directory in lexical order.
WalkOrder ==
    <<".", RunDataDir, BuildStampPath, GitDir, GitHead, GitIgnore,
      FileA, ColonFile, FileB, FunctionFile, SourceFile>>

IsDir(p) == p \in {".", RunDataDir, GitDir}

Parent(p) ==
    IF p = BuildStampPath THEN RunDataDir
    ELSE IF p = GitHead THEN GitDir
    ELSE "."

\* nameFromPath(root): the last element of the root path.
nameFromPath(root) ==
    IF root = ProjectRoot THEN "p" ELSE IF root = OtherRoot THEN "q" ELSE root

\* info.Name(): the last element of the path.
BaseName(root, p) ==
    IF p = "." THEN nameFromPath(root)
    ELSE IF p = BuildStampPath THEN "built"
    ELSE IF p = GitHead THEN "HEAD"
    ELSE p

Exists(f, p) == p \in DOMAIN f.mtime

SetMtime(mt, p, t) == [q \in DOMAIN mt \cup {p} |-> IF q = p THEN t ELSE mt[q]]

\* os.WriteFile: creating the entry also modifies its directory.
WriteFileAt(mt, p, t) ==
    IF p \in DOMAIN mt THEN SetMtime(mt, p, t)
    ELSE SetMtime(SetMtime(mt, Parent(p), t), p, t)

\* os.MkdirAll: nothing when the directory exists.
MkdirAllAt(mt, p, t) ==
    IF p \in DOMAIN mt THEN mt
    ELSE SetMtime(SetMtime(mt, Parent(p), t), p, t)

\* Removing an entry (with what is below it) modifies its directory.
RemoveAt(mt, p, t) ==
    LET keep == {q \in DOMAIN mt : q # p /\ Parent(q) # p}
    IN  [q \in keep |-> IF q = Parent(p) THEN t ELSE mt[q]]

(***************************************************************************)
(* Staleness engine                                                        *)
(***************************************************************************)
\* A walk that descends into the run data directory.
WalkSkipsGitOnly(root, p) ==
    \/ IsDir(p) /\ BaseName(root, p) = GitDir
    \/ p # "." /\ IsDir(Parent(p)) /\ BaseName(root, Parent(p)) = GitDir

\* The walk of fingerprint does not visit p: p is a directory named
\* RunDataDir or ".git" (filepath.SkipDir), or lies in one.
WalkSkips(root, p) ==
    \/ IsDir(p) /\ BaseName(root, p) \in {RunDataDir, GitDir}
    \/ p # "." /\ IsDir(Parent(p)) /\ BaseName(root, Parent(p)) \in {RunDataDir, GitDir}

\* The characters of a name.  A name may hold a colon and digits; the names
\* without either are single tokens.
NameChars(p) ==
    IF p = ColonFile THEN <<"a", ":", "1", ":", "b">> ELSE <<p>>

\* filepath.Join(root, p) as filepath.Walk hands it to the callback: the
\* root itself as it was given, and below a root "." the bare relative path.
JoinedPath(root, p) ==
    IF p = "." THEN <<root>>
    ELSE IF root = "." THEN NameChars(p)
    ELSE <<root, "/">> \o NameChars(p)

RECURSIVE Decimal(_)
\* %v of an integer: its decimal digits.
Decimal(n) ==
    LET digit(d) == <<"0", "1", "2", "3", "4", "5", "6", "7", "8", "9">>[d + 1]
    IN  IF n < 10 THEN <<digit(n)>> ELSE Decimal(n \div 10) \o <<digit(n % 10)>>

\* fmt.Fprintf(h, "%v:%v:", path, info.ModTime().UnixNano())
Formatted(path, mtime) == path \o <<":">> \o Decimal(mtime) \o <<":">>

RECURSIVE Digested(_, _, _)
\* What has been written to the hash once the entries of visited have been
\* walked, in order.
Digested(root, mt, visited) ==
    IF visited = << >> THEN << >>
    ELSE Formatted(JoinedPath(root, Head(visited)), mt[Head(visited)])
           \o Digested(root, mt, Tail(visited))

\* A fingerprint over the names alone.
fingerprintNamesOnly(root, mt) ==
    LET visited == SelectSeq(WalkOrder, LAMBDA p : p \in DOMAIN mt /\ ~WalkSkips(root, p))
    IN  Digested(root, [q \in DOMAIN mt |-> 0], visited)

\* fingerprint(f): the digest of "path:mtime:" over the entries visited, in
\* walk order.  The digest is modelled by the characters digested (two
\* fingerprints are equal when the same characters were written to the hash).
fingerprint(root, mt) ==
    LET visited == SelectSeq(WalkOrder, LAMBDA p : p \in DOMAIN mt /\ ~WalkSkips(root, p))
    IN  Digested(root, mt, visited)

ErrStampWrite == <<"open", ".func/built:", "permission", "denied">>

\* The lines ensureRuntimeDir writes to the ignore file.
gitignore ==
    << "",
       "# Functions use the .func directory for local runtime data which should",
       "# generally not be tracked in source control:",
       "/.func" >>

\* ensureRuntimeDir(f): the directory is made, the ignore file is written
\* with these lines as its whole content.
ensureRuntimeDir(f, t) ==
    [f EXCEPT !.mtime = WriteFileAt(MkdirAllAt(f.mtime, RunDataDir, t), GitIgnore, t),
              !.ignore = gitignore]

\* updateBuildStamp(f)
updateBuildStamp(f, root, t) ==
    LET f1 == ensureRuntimeDir(f, t)
        hash == fingerprint(root, f1.mtime)
    IN  IF f1.locked /\ Exists(f1, BuildStampPath)
          THEN [fs |-> f1, err |-> ErrStampWrite]
          ELSE [fs |-> [f1 EXCEPT !.mtime = WriteFileAt(f1.mtime, BuildStampPath, t),
                                  !.stamp = hash],
                err |-> Nil]

\* A Built that does not compare the stamp with the fingerprint.
BuiltIgnoresFingerprint(f, path, t) ==
    LET l == NewFunction(path, f.yaml, t)
    IN  IF l.err # Nil THEN FALSE
        ELSE IF ~HasImage(l.f) THEN FALSE
        ELSE IF ~Exists(f, BuildStampPath) THEN FALSE
        ELSE IF f.locked THEN FALSE
        ELSE TRUE

\* Client.Built(path)
Built(f, path, t) ==
    LET l == NewFunction(path, f.yaml, t)
    IN  IF l.err # Nil THEN FALSE
        ELSE IF ~HasImage(l.f) THEN FALSE
        ELSE IF ~Exists(f, BuildStampPath) THEN FALSE
        ELSE IF f.locked THEN FALSE
        ELSE IF f.stamp # fingerprint(path, f.mtime) THEN FALSE
        ELSE TRUE

ErrReadStamp == "error reading Function's fingerprint: permission denied"

\* A Built that writes every error it meets to the standard error stream.
BuiltDiagnosticsAll(f, path, t) ==
    LET l == NewFunction(path, f.yaml, t)
    IN  IF l.err # Nil THEN <<"error loading Function">>
        ELSE IF ~HasImage(l.f) THEN << >>
        ELSE IF ~Exists(f, BuildStampPath) THEN <<"error reading Function's build stamp">>
        ELSE IF f.locked THEN <<ErrReadStamp>>
        ELSE << >>

\* What Client.Built(path) writes to the standard error stream: nothing when
\* the load or the stat of the stamp fails, a line when the stamp cannot be
\* read.
BuiltDiagnostics(f, path, t) ==
    LET l == NewFunction(path, f.yaml, t)
    IN  IF l.err # Nil THEN << >>
        ELSE IF ~HasImage(l.f) THEN << >>
        ELSE IF ~Exists(f, BuildStampPath) THEN << >>
        ELSE IF f.locked THEN <<ErrReadStamp>>
        ELSE << >>

(***************************************************************************)
(* Lifecycle operations.  Each takes the tree f, its inputs, the outcome   *)
(* of the collaborator it calls, and the time t of its writes; it returns  *)
(* the tree it leaves, its error, and the collaborator calls it made.      *)
(***************************************************************************)
ErrNotBuilt == <<"not built">>

ErrBuilder == <<"builder", "failed">>

ErrPusher == <<"pusher", "failed">>

ErrDeployer == <<"deployer", "failed">>

ErrDNS == <<"dns", "provider", "failed">>

ErrTemplate == <<"template", "not", "found">>

ErrAlreadyInitialized == <<"Function", "at", "/p", "already", "initialized">>

ErrNotEmpty == <<"the", "directory", "must", "be", "empty">>

ErrRegistryRequired == <<"registry", "required">>

\* yaml.Marshal of the Function: the keys of the current schema only.
Marshal(fn) ==
    [ kind |-> "ok", Version |-> fn.Version, Name |-> fn.Name, Runtime |-> fn.Runtime,
      Image |-> fn.Image, ImageDigest |-> fn.ImageDigest, Created |-> fn.Created,
      Builder |-> "", BuilderImages |-> NoImages, BuildType |-> "",
      BuildBuilderImages |-> fn.BuilderImages, BuildBuildType |-> fn.BuildType ]

\* Function.Write: the descriptor file is (re)written.
Write(f, fn, t) ==
    [f EXCEPT !.yaml = Marshal(fn), !.mtime = WriteFileAt(f.mtime, FunctionFile, t)]

\* DerivedImage(path, registry): the image the descriptor names, else the
\* one derived from registry and name.
DerivedImage(f, path, registry, t) ==
    LET l == NewFunction(path, f.yaml, t)
    IN  IF l.err # Nil THEN [image |-> "", err |-> l.err]
        ELSE IF l.f.Image # "" THEN [image |-> l.f.Image, err |-> Nil]
        ELSE IF registry = "" THEN [image |-> "", err |-> ErrRegistryRequired]
        ELSE [image |-> registry \o "/" \o l.f.Name \o ":latest", err |-> Nil]

\* The nil *Job: what Run returns as Job when it has none.
NoJob == [id |-> "", stopped |-> FALSE]

Ret(f, err, calls, load) ==
    [fs |-> f, err |-> err, calls |-> calls, load |-> load, stages |-> << >>,
     progress |-> << >>, job |-> NoJob, target |-> ""]

\* The calls an operation makes on the ProgressListener, in order.
SetTotal(n) == [call |-> "SetTotal", n |-> n, msg |-> ""]

Increment(msg) == [call |-> "Increment", n |-> 0, msg |-> msg]

Complete(msg) == [call |-> "Complete", n |-> 0, msg |-> msg]

\* r, the operation having reported msgs to the ProgressListener.
Reporting(r, msgs) == [r EXCEPT !.progress = msgs]

BuildingMessage == "Building function image"

\* The message at the end of Build (with a pictogram in front of it except on
\* Windows).
BuiltMessage(image) == "Function image built: " \o image

DeployingMessage == "Deploying function to the cluster"

\* A report that does not tell an update from a first deployment.
DeployedMessagesAlike(result) ==
    IF result.status \in {"Deployed", "Updated"}
      THEN <<Increment("Function deployed at URL: " \o result.url)>>
    ELSE << >>

\* What Deploy reports once the Deployer has returned.
DeployedMessages(result) ==
    IF result.status = "Deployed"
      THEN <<Increment("Function deployed at URL: " \o result.url)>>
    ELSE IF result.status = "Updated"
      THEN <<Increment("Function updated at URL: " \o result.url)>>
    ELSE << >>

\* A Build that writes the stamp before it persists the descriptor.
BuildStampsFirst(f, path, registry, builderErr, t) ==
    LET l == NewFunction(path, f.yaml, t)
        d == DerivedImage(f, path, registry, t)
        fn == [l.f EXCEPT !.Image = d.image]
        u == updateBuildStamp(f, fn.Root, t)
        f1 == Write(u.fs, fn, t)
        start == <<Increment(BuildingMessage)>>
        end == IF u.err = Nil THEN <<Increment(BuiltMessage(fn.Image))>> ELSE << >>
    IN  IF l.err # Nil THEN Reporting(Ret(f, l.err, << >>, l), start)
        ELSE IF d.err # Nil THEN Reporting(Ret(f, d.err, << >>, l), start)
        ELSE IF builderErr # Nil
          THEN Reporting(Ret(f, builderErr, <<"Builder.Build">>, l), start)
        ELSE Reporting(Ret(f1, u.err, <<"Builder.Build">>, l), start \o end)

\* A Build that persists the derived image before it calls the Builder.
BuildPersistsFirst(f, path, registry, builderErr, t) ==
    LET l == NewFunction(path, f.yaml, t)
        d == DerivedImage(f, path, registry, t)
        fn == [l.f EXCEPT !.Image = d.image]
        f1 == Write(f, fn, t)
        u == updateBuildStamp(f1, fn.Root, t)
        start == <<Increment(BuildingMessage)>>
        end == IF u.err = Nil THEN <<Increment(BuiltMessage(fn.Image))>> ELSE << >>
    IN  IF l.err # Nil THEN Reporting(Ret(f, l.err, << >>, l), start)
        ELSE IF d.err # Nil THEN Reporting(Ret(f, d.err, << >>, l), start)
        ELSE IF builderErr # Nil
          THEN Reporting(Ret(f1, builderErr, <<"Builder.Build">>, l), start)
        ELSE Reporting(Ret(u.fs, u.err, <<"Builder.Build">>, l), start \o end)

\* Client.Build(ctx, path); builderErr is what c.builder.Build returns.
Build(f, path, registry, builderErr, t) ==
    LET l == NewFunction(path, f.yaml, t)
        d == DerivedImage(f, path, registry, t)
        fn == [l.f EXCEPT !.Image = d.image]
        f1 == Write(f, fn, t)
        u == updateBuildStamp(f1, fn.Root, t)
        start == <<Increment(BuildingMessage)>>
        end == IF u.err = Nil THEN <<Increment(BuiltMessage(fn.Image))>> ELSE << >>
    IN  IF l.err # Nil THEN Reporting(Ret(f, l.err, << >>, l), start)
        ELSE IF d.err # Nil THEN Reporting(Ret(f, d.err, << >>, l), start)
        ELSE IF builderErr # Nil
          THEN Reporting(Ret(f, builderErr, <<"Builder.Build">>, l), start)
        ELSE Reporting(Ret(u.fs, u.err, <<"Builder.Build">>, l), start \o end)

\* A Push that persists the digest without the image it belongs to.
PushForgetsImage(f, path, pushed, t) ==
    LET l == NewFunction(path, f.yaml, t)
    IN  IF l.err # Nil THEN Ret(f, l.err, << >>, l)
        ELSE IF ~HasImage(l.f) THEN Ret(f, ErrNotBuilt, << >>, l)
        ELSE IF pushed.err # Nil THEN Ret(f, pushed.err, <<"Pusher.Push">>, l)
        ELSE Ret(Write(f, [l.f EXCEPT !.ImageDigest = pushed.digest, !.Image = ""], t),
                 Nil, <<"Pusher.Push">>, l)

\* A Push that goes to the Pusher whether or not there is an image.
PushWithoutImageCheck(f, path, pushed, t) ==
    LET l == NewFunction(path, f.yaml, t)
    IN  IF l.err # Nil THEN Ret(f, l.err, << >>, l)
        ELSE IF pushed.err # Nil THEN Ret(f, pushed.err, <<"Pusher.Push">>, l)
        ELSE Ret(Write(f, [l.f EXCEPT !.ImageDigest = pushed.digest], t),
                 Nil, <<"Pusher.Push">>, l)

\* Client.Push(ctx, path); pushed is what c.pusher.Push returns.
Push(f, path, pushed, t) ==
    LET l == NewFunction(path, f.yaml, t)
    IN  IF l.err # Nil THEN Ret(f, l.err, << >>, l)
        ELSE IF ~HasImage(l.f) THEN Ret(f, ErrNotBuilt, << >>, l)
        ELSE IF pushed.err # Nil THEN Ret(f, pushed.err, <<"Pusher.Push">>, l)
        ELSE Ret(Write(f, [l.f EXCEPT !.ImageDigest = pushed.digest], t),
                 Nil, <<"Pusher.Push">>, l)

\* A Deploy that writes the descriptor back once the Deployer has returned.
DeployPersists(f, path, deployed, t) ==
    LET l == NewFunction(path, f.yaml, t)
    IN  IF l.err # Nil THEN Ret(f, l.err, << >>, l)
        ELSE IF ~HasImage(l.f) THEN Ret(f, ErrNotBuilt, << >>, l)
        ELSE Reporting(Ret(Write(f, l.f, t), deployed.err, <<"Deployer.Deploy">>, l),
                       <<Increment(DeployingMessage)>> \o DeployedMessages(deployed))

\* Client.Deploy(ctx, path); deployed is what c.deployer.Deploy returns.
Deploy(f, path, deployed, t) ==
    LET l == NewFunction(path, f.yaml, t)
    IN  IF l.err # Nil THEN Ret(f, l.err, << >>, l)
        ELSE IF ~HasImage(l.f) THEN Ret(f, ErrNotBuilt, << >>, l)
        ELSE Reporting(Ret(f, deployed.err, <<"Deployer.Deploy">>, l),
                       <<Increment(DeployingMessage)>> \o DeployedMessages(deployed))

\* Client.Route(path); dnsErr is what c.dnsProvider.Provide returns.
Route(f, path, dnsErr, t) ==
    LET l == NewFunction(path, f.yaml, t)
    IN  IF l.err # Nil THEN Ret(f, l.err, << >>, l)
        ELSE Ret(f, dnsErr, <<"DNSProvider.Provide">>, l)

\* hasInitializedFunction(root)
hasInitializedFunction(f, root, t) ==
    LET l == NewFunction(root, f.yaml, t)
    IN  [has |-> l.err = Nil /\ Initialized(l.f), err |-> l.err]

\* assertEmptyRoot(root): no descriptor, no ignore file, no visible file.
assertEmptyRoot(f) ==
    IF \E p \in {FunctionFile, GitIgnore, SourceFile} : Exists(f, p)
      THEN ErrNotEmpty ELSE Nil

\* NewFunctionWith(cfg): the defaults filled in; a new Function is at the
\* version of the last migration.
NewFunctionWith(cfg) ==
    [cfg EXCEPT !.Version = IF cfg.Version.set THEN cfg.Version ELSE LastThreshold]

\* A Create that makes the run data directory before it looks for a Function.
CreateEnsuresDirFirst(f, cfg, templateErr, t) ==
    LET f1 == ensureRuntimeDir(f, t)
        h == hasInitializedFunction(f1, cfg.Root, t)
        named == [cfg EXCEPT !.Name = IF cfg.Name = "" THEN nameFromPath(cfg.Root) ELSE cfg.Name]
        fn == NewFunctionWith(named)
        f2 == [f1 EXCEPT !.mtime = WriteFileAt(f1.mtime, SourceFile, t)]
        l == NoResult(fn)
    IN  IF h.err # Nil THEN Ret(f1, h.err, << >>, l)
        ELSE IF h.has THEN Ret(f1, ErrAlreadyInitialized, << >>, l)
        ELSE IF assertEmptyRoot(f) # Nil THEN Ret(f1, assertEmptyRoot(f), << >>, l)
        ELSE IF templateErr # Nil THEN Ret(f1, templateErr, <<"Templates.Write">>, l)
        ELSE Ret(Write(f2, [fn EXCEPT !.Created = t], t), Nil, <<"Templates.Write">>, l)

\* Client.Create(cfg); templateErr is what c.Templates().Write returns, the
\* template writing the source file when it succeeds.
Create(f, cfg, templateErr, t) ==
    LET h == hasInitializedFunction(f, cfg.Root, t)
        named == [cfg EXCEPT !.Name = IF cfg.Name = "" THEN nameFromPath(cfg.Root) ELSE cfg.Name]
        fn == NewFunctionWith(named)
        f1 == ensureRuntimeDir(f, t)
        f2 == [f1 EXCEPT !.mtime = WriteFileAt(f1.mtime, SourceFile, t)]
        l == NoResult(fn)
    IN  IF h.err # Nil THEN Ret(f, h.err, << >>, l)
        ELSE IF h.has THEN Ret(f, ErrAlreadyInitialized, << >>, l)
        ELSE IF assertEmptyRoot(f) # Nil THEN Ret(f, assertEmptyRoot(f), << >>, l)
        ELSE IF templateErr # Nil THEN Ret(f1, templateErr, <<"Templates.Write">>, l)
        ELSE Ret(Write(f2, [fn EXCEPT !.Created = t], t), Nil, <<"Templates.Write">>, l)

\* What New reports before it calls a stage.
Announces(name) ==
    CASE name = "Build" -> <<Increment("Building container image")>>
      [] name = "Push" -> <<Increment("Pushing container image to registry")>>
      [] name = "Deploy" -> <<Increment("Deploying Function to cluster")>>
      [] name = "Route" -> <<Increment("Creating route to Function")>>
      [] OTHER -> << >>

\* New, its stages done: Complete is reported when none failed.
Completed(s) ==
    IF s.err = Nil THEN [s EXCEPT !.progress = Append(@, Complete("Done"))] ELSE s

\* A New that goes on to Deploy when Push has failed.
StageIgnoresPushError(acc, name, r) ==
    IF acc.err # Nil /\ ~(name = "Deploy" /\ acc.err = ErrPusher) THEN acc
    ELSE [ fs |-> r.fs, err |-> r.err, calls |-> acc.calls \o r.calls,
           stages |-> Append(acc.stages, [stage |-> name, err |-> r.err]),
           load |-> r.load,
           progress |-> acc.progress \o Announces(name) \o r.progress,
           job |-> NoJob, target |-> "" ]

\* One stage of New: when no stage before it failed, the stage runs on the
\* tree left so far and its result is appended to the record of stages;
\* when one failed, New has returned.
Stage(acc, name, r) ==
    IF acc.err # Nil THEN acc
    ELSE [ fs |-> r.fs, err |-> r.err, calls |-> acc.calls \o r.calls,
           stages |-> Append(acc.stages, [stage |-> name, err |-> r.err]),
           load |-> r.load,
           progress |-> acc.progress \o Announces(name) \o r.progress,
           job |-> NoJob, target |-> "" ]

\* The load between Create and Build: f, err := NewFunction(cfg.Root).
LoadStage(acc, cfg, t) ==
    IF acc.err # Nil THEN acc
    ELSE [acc EXCEPT !.err = NewFunction(cfg.Root, acc.fs.yaml, t).err,
                     !.load = NewFunction(cfg.Root, acc.fs.yaml, t)]

\* The one element of a singleton set.
Only(S) == CHOOSE x \in S : TRUE

\* Client.New(ctx, cfg): Create, load, Build, Push, Deploy, Route, each on
\* what the one before left (s0 .. s5), at f.Root, which is cfg.Root.  The
\* stages write at successive times from t on.
New(f, cfg, registry, out, t) ==
    Completed(Only({ Stage(s5, "Route", Route(s5.fs, cfg.Root, out.dns, t + 2)) :
      s5 \in { Stage(s4, "Deploy", Deploy(s4.fs, cfg.Root, out.deployer, t + 2)) :
        s4 \in { Stage(s3, "Push", Push(s3.fs, cfg.Root, out.pusher, t + 2)) :
          s3 \in { Stage(s2, "Build", Build(s2.fs, cfg.Root, registry, out.builder, t + 1)) :
            s2 \in { LoadStage(s1, cfg, t) :
              s1 \in { Stage(s0, "Create", Create(s0.fs, cfg, out.template, t)) :
                s0 \in { [ fs |-> f, err |-> Nil, calls |-> << >>, stages |-> << >>,
                           load |-> NoResult(cfg),
                           progress |-> <<SetTotal(3)>>, job |-> NoJob,
                           target |-> "" ] } } } } } } }))

(***************************************************************************)
(* Specification of the lifecycle: the operations of the Client on one     *)
(* project root, interleaved with edits of the tree by the user.  The      *)
(* filesystem clock advances with every write, so that a write always      *)
(* changes the modification time.                                          *)
(***************************************************************************)
MaxClock == 4

Registries == {"", "reg.io/u"}

PushOutcomes == { [digest |-> "sha256:abc", err |-> Nil], [digest |-> "", err |-> ErrPusher] }

DeployOutcomes ==
    { [status |-> "Deployed", url |-> "http://f", err |-> Nil],
      [status |-> "Updated", url |-> "http://f", err |-> Nil],
      [status |-> "Failed", url |-> "", err |-> ErrDeployer],
      [status |-> "Failed", url |-> "", err |-> Nil] }

NewOutcomes ==
    [ template : {Nil, ErrTemplate}, builder : {Nil, ErrBuilder},
      pusher : PushOutcomes, deployer : DeployOutcomes, dns : {Nil, ErrDNS} ]

\* The cfg handed to Create and New.
Cfgs ==
    { [EmptyFunction(ProjectRoot) EXCEPT !.Name = n, !.Runtime = "go"] : n \in {"", ProjectName} }

\* A descriptor file written by an earlier release.
LegacyFile(kind, v, image, builder) ==
    [ kind |-> kind, Version |-> v, Name |-> ProjectName, Runtime |-> "go",
      Image |-> image, ImageDigest |-> "", Created |-> 0, Builder |-> builder,
      BuilderImages |-> NoImages, BuildType |-> "",
      BuildBuilderImages |-> NoImages, BuildBuildType |-> "" ]

LVersions == {EmptyVersion, Ver(0, 20, 0, ""), Ver(1, 0, 0, ""), Ver(1, 1, 0, "")}

EmptyRoot ==
    [ mtime |-> [p \in {"."} |-> 0], yaml |-> NoFile, stamp |-> << >>, locked |-> FALSE,
      ignore |-> << >> ]

InitialTrees ==
    {EmptyRoot}
    \cup {[EmptyRoot EXCEPT !.mtime = [p \in {".", GitDir, GitHead} |-> 0]]}
    \cup { [EmptyRoot EXCEPT !.mtime = [p \in {".", FunctionFile, SourceFile} |-> 0],
                             !.yaml = LegacyFile(k, v, img, "")] :
             k \in {"ok", "bad100"}, v \in LVersions, img \in {"", "example.com/f:v1"} }

Observed(op, in, r, pre) ==
    [ op |-> op, in |-> in, err |-> r.err, calls |-> r.calls, load |-> r.load,
      stages |-> r.stages, built |-> FALSE, pre |-> pre, progress |-> r.progress,
      job |-> r.job, target |-> r.target, stderr |-> << >> ]

LifecycleInit ==
    /\ fs \in InitialTrees
    /\ clock = 1
    /\ last = [ op |-> "none", in |-> << >>, err |-> Nil, calls |-> << >>,
                load |-> NoResult(EmptyFunction(ProjectRoot)),
                stages |-> << >>, built |-> FALSE, pre |-> fs, progress |-> << >>,
                job |-> NoJob, target |-> "", stderr |-> << >> ]
    /\ dirty = {}
    /\ MigrateIdle
    /\ RemoveIdle
    /\ WatchIdle

\* The operation was a Build that succeeded, or a New whose Build stage did.
BuildSucceeded(op, r) ==
    \/ op = "Build" /\ r.err = Nil
    \/ op = "New" /\ \E i \in 1..Len(r.stages) : r.stages[i] = [stage |-> "Build", err |-> Nil]

\* What an operation that may write leaves: the tree, the clock advanced
\* past its writes, and the entries still changed since the last build.
Leaves(op, in, r, ticks) ==
    /\ fs' = r.fs
    /\ clock' = clock + ticks
    /\ last' = Observed(op, in, r, fs)
    /\ dirty' = IF BuildSucceeded(op, r) THEN {} ELSE dirty
    /\ UNCHANGED mvars
    /\ UNCHANGED wvars
    /\ UNCHANGED rvars

DoCreate ==
    /\ clock < MaxClock
    /\ \E cfg \in Cfgs, te \in {Nil, ErrTemplate} :
           Leaves("Create", cfg, Create(fs, cfg, te, clock), 1)

DoBuild ==
    /\ clock < MaxClock
    /\ \E reg \in Registries, be \in {Nil, ErrBuilder} :
           Leaves("Build", be, Build(fs, ProjectRoot, reg, be, clock), 1)

DoPush ==
    /\ clock < MaxClock
    /\ \E pushed \in PushOutcomes :
           Leaves("Push", pushed, Push(fs, ProjectRoot, pushed, clock), 1)

DoDeploy ==
    \E deployed \in DeployOutcomes :
        Leaves("Deploy", deployed, Deploy(fs, ProjectRoot, deployed, clock), 0)

DoRoute ==
    \E de \in {Nil, ErrDNS} :
        Leaves("Route", de, Route(fs, ProjectRoot, de, clock), 0)

DoNew ==
    /\ clock + 3 <= MaxClock
    /\ \E cfg \in Cfgs, reg \in Registries, out \in NewOutcomes :
           Leaves("New", out, New(fs, cfg, reg, out, clock), 3)

\* Client.Built(path): a query; it leaves the tree as it is.
DoBuilt ==
    /\ fs' = fs
    /\ clock' = clock
    /\ dirty' = dirty
    /\ last' = [Observed("Built", << >>, Ret(fs, Nil, << >>, NewFunction(ProjectRoot, fs.yaml, clock)), fs)
                   EXCEPT !.built = Built(fs, ProjectRoot, clock),
                          !.stderr = BuiltDiagnostics(fs, ProjectRoot, clock)]
    /\ UNCHANGED mvars
    /\ UNCHANGED wvars
    /\ UNCHANGED rvars

\* What an edit of the tree by the user leaves.
Edited(op, p, mt, changed) ==
    /\ fs' = [fs EXCEPT !.mtime = mt,
                        !.yaml = IF FunctionFile \in DOMAIN mt THEN @ ELSE NoFile]
    /\ clock' = clock + 1
    /\ dirty' = dirty \cup changed
    /\ last' = Observed(op, p, Ret(fs, Nil, << >>, NoResult(EmptyFunction(ProjectRoot))), fs)
    /\ UNCHANGED mvars
    /\ UNCHANGED wvars
    /\ UNCHANGED rvars

\* The user modifies a file outside the excluded directories.
UserModifies ==
    /\ clock < MaxClock
    /\ \E p \in {SourceFile, FunctionFile, GitIgnore} :
           /\ Exists(fs, p)
           /\ Edited("Modify", p, SetMtime(fs.mtime, p, clock), {p})

\* The user creates the source file.
UserCreates ==
    /\ clock < MaxClock
    /\ ~Exists(fs, SourceFile)
    /\ Edited("Create file", SourceFile, WriteFileAt(fs.mtime, SourceFile, clock), {SourceFile})

\* The user deletes the source file.
UserDeletes ==
    /\ clock < MaxClock
    /\ Exists(fs, SourceFile)
    /\ Edited("Delete file", SourceFile, RemoveAt(fs.mtime, SourceFile, clock), {})

\* Version control rewrites a file inside its directory.
GitWrites ==
    /\ clock < MaxClock
    /\ Exists(fs, GitHead)
    /\ Edited("Git", GitHead, SetMtime(fs.mtime, GitHead, clock), {})

\* The stamp file is made unreadable and unwritable, or readable again.
UserLocksStamp ==
    /\ Exists(fs, BuildStampPath)
    /\ fs' = [fs EXCEPT !.locked = ~@]
    /\ last' = Observed("Chmod", BuildStampPath, Ret(fs, Nil, << >>, NoResult(EmptyFunction(ProjectRoot))), fs)
    /\ UNCHANGED <<clock, dirty>>
    /\ UNCHANGED mvars
    /\ UNCHANGED wvars
    /\ UNCHANGED rvars

LifecycleNext ==
    \/ DoCreate
    \/ DoBuild
    \/ DoPush
    \/ DoDeploy
    \/ DoRoute
    \/ DoNew
    \/ DoBuilt
    \/ UserModifies
    \/ UserCreates
    \/ UserDeletes
    \/ GitWrites
    \/ UserLocksStamp

Spec == LifecycleInit /\ [][LifecycleNext]_vars

StageOrder == <<"Create", "Build", "Push", "Deploy", "Route">>

CollaboratorOrder ==
    <<"Templates.Write", "Builder.Build", "Pusher.Push", "Deployer.Deploy", "DNSProvider.Provide">>

\* s lists some elements of order, each at most once, in the order of order.
InOrderOf(s, order) ==
    \E pos \in [1..Len(s) -> 1..Len(order)] :
        /\ \A i \in 1..Len(s) : s[i] = order[pos[i]]
        /\ \A i, j \in 1..Len(s) : i < j => pos[i] < pos[j]

Called(c) == \E i \in 1..Len(last.calls) : last.calls[i] = c

\* C1: New runs Create, Build, Push, Deploy, Route in that order, each at
\* most once, and stops at the first stage that returns an error: no later
\* stage runs, no later collaborator is invoked, and New returns that error.
C1_NewStagesInOrder ==
    last.op = "New" =>
        LET st == last.stages
            n == Len(st)
        IN  /\ [i \in 1..n |-> st[i].stage] = SubSeq(StageOrder, 1, n)
            /\ \A i \in 1..n : i < n => st[i].err = Nil
            /\ n >= 1
            /\ last.err = st[n].err
            /\ last.err = Nil => n = Len(StageOrder)
            /\ InOrderOf(last.calls, CollaboratorOrder)
            /\ \A k \in 1..Len(StageOrder) : k > n => ~Called(CollaboratorOrder[k])
            /\ (Called("Builder.Build") /\ last.in.builder # Nil)
                   => (last.err = last.in.builder /\ ~Called("Pusher.Push"))
            /\ (Called("Pusher.Push") /\ last.in.pusher.err # Nil)
                   => (last.err = last.in.pusher.err /\ ~Called("Deployer.Deploy"))
            /\ (Called("Deployer.Deploy") /\ last.in.deployer.err # Nil)
                   => (last.err = last.in.deployer.err /\ ~Called("DNSProvider.Provide"))
            /\ (Called("DNSProvider.Provide") /\ last.in.dns # Nil)
                   => last.err = last.in.dns

\* A New whose Push stage failed, after Create and Build.
C1_Witness ==
    /\ last.op = "New"
    /\ last.err = ErrPusher
    /\ Len(last.stages) = 3
    /\ last.calls = <<"Templates.Write", "Builder.Build", "Pusher.Push">>

\* C2: on a project whose Descriptor loads without an image, Push and
\* Deploy return ErrNotBuilt, which is none of the collaborators' errors,
\* invoke neither the Pusher nor the Deployer, and leave the tree, the
\* descriptor file included, as it was.
C2_NotBuiltSentinel ==
    (last.op \in {"Push", "Deploy"}
        /\ NewFunction(ProjectRoot, last.pre.yaml, 0).err = Nil
        /\ NewFunction(ProjectRoot, last.pre.yaml, 0).f.Image = "")
    =>  /\ last.err = ErrNotBuilt
        /\ last.err # last.in.err
        /\ last.calls = << >>
        /\ fs = last.pre

\* A Push on a descriptor that exists and names no image.
C2_Witness ==
    /\ last.op = "Push"
    /\ last.err = ErrNotBuilt
    /\ Exists(fs, FunctionFile)
    /\ fs.yaml.Image = ""

\* C3: right after a Build that returned success Built is true; once a file
\* outside the excluded directories has been created or modified since, Built
\* is false until a Build succeeds again.
C3_BuiltAfterBuildUntilEdit ==
    /\ (last.op = "Build" /\ last.err = Nil) => Built(fs, ProjectRoot, clock)
    /\ dirty # {} => ~Built(fs, ProjectRoot, clock)

\* The user has just modified a file of a tree that was built.
C3_Witness ==
    /\ last.op = "Modify"
    /\ Built(last.pre, ProjectRoot, clock)
    /\ dirty # {}

OnValue == last.op = "idle"

VersionsNext ==
    \/ OnValue /\ MigrateCall
    \/ OnValue /\ MigrateAgain
    \/ OnValue /\ MigrateTick
    \/ ~OnValue /\ DoCreate
    \/ ~OnValue /\ DoBuild
    \/ ~OnValue /\ DoPush
    \/ ~OnValue /\ DoDeploy
    \/ ~OnValue /\ DoRoute
    \/ ~OnValue /\ DoNew
    \/ ~OnValue /\ DoBuilt
    \/ ~OnValue /\ UserModifies
    \/ ~OnValue /\ UserCreates
    \/ ~OnValue /\ UserDeletes
    \/ ~OnValue /\ GitWrites
    \/ ~OnValue /\ UserLocksStamp

SpecVersions == (MigrateInit \/ LifecycleInit) /\ [][VersionsNext]_vars

NotBelow(v, w) == ~LessThan(OrDefault(v), OrDefault(w))

\* C8: the version never decreases.  What Migrate returns, with or without
\* an error, has a version not below that of its argument (empty read as
\* 0.0.0); and a Create, Build, Push or New that wrote the descriptor file
\* wrote a version not below the one in the file before, nor, for Build
\* and Push, below the one of the Function they loaded.
C8_VersionNeverDecreases ==
    /\ mres.n >= 1 => NotBelow(mres.out.f.Version, mres.in.Version)
    /\ (last.op \in {"Create", "Build", "Push", "New"} /\ fs.yaml # last.pre.yaml)
           => NotBelow(fs.yaml.Version, last.pre.yaml.Version)
    /\ (last.op \in {"Build", "Push"} /\ fs.yaml # last.pre.yaml)
           => /\ NotBelow(last.load.f.Version, last.pre.yaml.Version)
              /\ NotBelow(fs.yaml.Version, last.load.f.Version)

\* A Build loaded a descriptor of version 0.20.0 and wrote it back.
C8_Witness ==
    /\ last.op = "Build"
    /\ last.err = Nil
    /\ last.pre.yaml.Version = Ver(0, 20, 0, "")
    /\ fs.yaml.Version = LastThreshold

\* A Migrate that failed part of the way returned a version above its
\* argument's.
C8_WitnessMigrate ==
    /\ mres.n >= 1
    /\ mres.out.err # Nil
    /\ LessThan(OrDefault(mres.in.Version), mres.out.f.Version)

\* C11: a successful Migrate of a Function below 0.23.0 whose descriptor
\* file names a custom image under the legacy key `builder` returns a
\* Function whose builder image for "pack" is that image.
C11_CustomBuilderCarried ==
    (/\ mres.n = 1
     /\ mres.out.err = Nil
     /\ LessThan(OrDefault(mres.in.Version), Ver(0, 23, 0, ""))
     /\ mfile.Builder \notin {"", defaultPackBuilderImage})
    =>  /\ "pack" \in DOMAIN mres.out.f.BuilderImages
        /\ mres.out.f.BuilderImages["pack"] = mfile.Builder

\* C12: Migrated is false for a Function with the empty version; for any
\* other it is true exactly when the version is the threshold of the last
\* migration or above it; and it is true of what every Migrate without
\* error returns.
C12_MigratedAtLastThreshold ==
    /\ \A f \in {mf, mres.in, mres.out.f} :
           Migrated(f) <=> (/\ f.Version.set
                            /\ \/ f.Version = LastThreshold
                               \/ LessThan(LastThreshold, f.Version))
    /\ (mres.n >= 1 /\ mres.out.err = Nil) => Migrated(mres.out.f)

\* A Function that was not migrated is, after a Migrate without error.
C12_Witness ==
    /\ mres.n = 1
    /\ mres.out.err = Nil
    /\ mres.in.Version.set
    /\ ~Migrated(mres.in)
    /\ Migrated(mres.out.f)

\* The tree holds a descriptor that loads and is initialized.
HoldsInitialized(f) ==
    /\ NewFunction(ProjectRoot, f.yaml, 0).err = Nil
    /\ Initialized(NewFunction(ProjectRoot, f.yaml, 0).f)

\* C13: a Create (alone, or as the first stage of New) on a root that holds
\* an initialized Descriptor returns an error, calls no collaborator, and
\* leaves the tree as it was: descriptor, run data directory, ignore file,
\* template files and every modification time.
C13_CreateNeverClobbers ==
    (last.op \in {"Create", "New"} /\ HoldsInitialized(last.pre)) =>
        /\ last.err = ErrAlreadyInitialized
        /\ last.calls = << >>
        /\ fs = last.pre

\* A Create was refused on a built project.
C13_Witness ==
    /\ last.op = "Create"
    /\ last.err = ErrAlreadyInitialized
    /\ Exists(fs, BuildStampPath)
    /\ fs.yaml.Image # ""

\* C14: the created timestamp is set once.  A Create that succeeds persists
\* the time of the call; a Migrate, failed or not, returns the created
\* timestamp of its argument when that is not zero; and no operation on a
\* tree whose descriptor has a created timestamp leaves another one there.
C14_CreatedSetOnce ==
    /\ (mres.n >= 1 /\ mres.in.Created # 0) => mres.out.f.Created = mres.in.Created
    /\ (last.op = "Create" /\ last.err = Nil) =>
           (fs.yaml.Created # 0 /\ fs.yaml.Created = clock - 1)
    /\ (last.op \notin {"idle", "none"} /\ last.pre.yaml.Created # 0) =>
           fs.yaml.Created = last.pre.yaml.Created

\* The creation-stamp migration ran on a named Function that had a created
\* timestamp already.
C14_Witness ==
    /\ mres.n = 1
    /\ mres.in.Created # 0
    /\ mres.in.Name # ""
    /\ mres.in.Runtime # ""
    /\ Len(mres.out.applied) >= 1
    /\ mres.out.applied[1].index = 1

\* A Build rewrote a descriptor that Create had stamped.
C14_WitnessBuild ==
    /\ last.op = "Build"
    /\ last.err = Nil
    /\ last.pre.yaml.Created # 0
    /\ fs.yaml # last.pre.yaml

\* The operation observed called the Builder, which returned success.
BuilderSucceeded(l) ==
    /\ \E i \in 1..Len(l.calls) : l.calls[i] = "Builder.Build"
    /\ \/ l.op = "Build" /\ l.in = Nil
       \/ l.op = "New" /\ l.in.builder = Nil

\* The operation observed was a Build whose Builder returned an error.
BuilderFailed(l) ==
    /\ l.op = "Build"
    /\ l.calls = <<"Builder.Build">>
    /\ l.in # Nil

C15_FailedBuildPersistsNothing == BuilderFailed(last) => (last.err = last.in /\ fs = last.pre)

\* C15: the descriptor file goes from naming no image to naming one only in
\* a step in which the Builder was called and returned success; and a Build
\* whose Builder returned an error leaves the tree, descriptor and stamp
\* included, as it was.
C15_ImageOnlyFromBuild ==
    /\ [](C15_FailedBuildPersistsNothing)
    /\ [][(fs.yaml.Image = "" /\ fs'.yaml.Image # "") => BuilderSucceeded(last')]_vars

\* The Builder failed on a created project for which an image was derived.
C15_Witness ==
    /\ BuilderFailed(last)
    /\ last.in = ErrBuilder
    /\ fs.yaml.kind = "ok"
    /\ fs.yaml.Created # 0
    /\ fs.yaml.Image = ""

(***************************************************************************)
(* Cancellation.  One invocation of an operation that accepts a context:   *)
(* the main flow starts its background tasks and calls its collaborators   *)
(* in the order of the code, while the context may be cancelled at any     *)
(* moment and the tasks started run on their own.  A task is a watcher     *)
(* (go func() { <-ctx.Done(); Stopping() }) or the heartbeat of            *)
(* printBuildActivity.  The operation's own preconditions hold.            *)
(***************************************************************************)
MaxBeats == 2

ContextOps ==
    {"New", "Build", "Push", "Deploy", "Run", "Info", "List", "Remove", "Invoke", "RunPipeline"}

ErrCollaborator == <<"collaborator", "failed">>

\* What a collaborator that observes the context returns once it is done.
ErrCanceled == <<"context", "canceled">>

Watch(owner) == [k |-> "watch", o |-> owner]

Call(collaborator) == [k |-> "call", o |-> collaborator]

\* Client.Build: the heartbeat unless verbose, then the Builder.
BuildPlan(verbose) ==
    (IF verbose THEN << >> ELSE <<[k |-> "heartbeat", o |-> "Build"]>>)
        \o <<Call("Builder.Build")>>

\* Client.Push: the Pusher, and no background task.
PushPlan == <<Call("Pusher.Push")>>

\* A Deploy that leaves the watching to its caller.
DeployPlanNoWatcher == <<Call("Deployer.Deploy")>>

\* Client.Deploy: its watcher, then the Deployer.
DeployPlan == <<Watch("Deploy"), Call("Deployer.Deploy")>>

\* The background tasks an operation starts and the collaborator calls it
\* makes, in the order of its code.
Plan(op, verbose) ==
    CASE op = "New" ->
             <<Watch("New"), Call("Templates.Write")>> \o BuildPlan(verbose) \o PushPlan
                 \o DeployPlan \o <<Call("DNSProvider.Provide")>>
      [] op = "Build" -> BuildPlan(verbose)
      [] op = "Push" -> PushPlan
      [] op = "Deploy" -> DeployPlan
      [] op = "Run" -> <<Watch("Run"), Call("Runner.Run")>>
      [] op = "Info" -> <<Watch("Info"), Call("Describer.Describe")>>
      [] op = "List" -> <<Call("Lister.List")>>
      [] op = "Remove" -> <<Watch("Remove"), Call("Remover.Remove")>>
      [] op = "Invoke" -> <<Watch("Invoke"), Call("invoke")>>
      [] op = "RunPipeline" -> <<Watch("RunPipeline"), Call("PipelinesProvider.Run")>>

\* The error the operation returns for a collaborator error: RunPipeline
\* wraps it, the others return it as it is.
Wrap(op, e) ==
    IF op = "RunPipeline" THEN <<"failed", "to", "run", "pipeline:">> \o e ELSE e

WatchInit ==
    /\ wop \in [op : ContextOps, verbose : BOOLEAN]
    /\ wpc = [at |-> 1, inflight |-> FALSE]
    /\ wctx = "live"
    /\ tasks = << >>
    /\ reporter = [stopping |-> 0, beats |-> 0]
    /\ wret = [done |-> FALSE, err |-> Nil, outcome |-> Nil]
    /\ MigrateIdle
    /\ RemoveIdle
    /\ LifecycleIdle

\* The step of the plan the main flow is at.
AtStep(k) ==
    /\ ~wret.done
    /\ wpc.at >= 1
    /\ wpc.at <= Len(Plan(wop.op, wop.verbose))
    /\ Plan(wop.op, wop.verbose)[wpc.at].k = k

NewTask(kind) ==
    [owner |-> Plan(wop.op, wop.verbose)[wpc.at].o, kind |-> kind, st |-> "waiting", late |-> FALSE]

\* go func() { <-ctx.Done(); c.progressListener.Stopping() }()
StartWatcher ==
    /\ AtStep("watch")
    /\ tasks' = Append(tasks, NewTask("watcher"))
    /\ wpc' = [wpc EXCEPT !.at = @ + 1]
    /\ UNCHANGED <<wop, wctx, reporter, wret>>
    /\ UNCHANGED <<mvars, rvars, lvars>>

\* c.printBuildActivity(ctx)
printBuildActivity ==
    /\ AtStep("heartbeat")
    /\ tasks' = Append(tasks, NewTask("heartbeat"))
    /\ wpc' = [wpc EXCEPT !.at = @ + 1]
    /\ UNCHANGED <<wop, wctx, reporter, wret>>
    /\ UNCHANGED <<mvars, rvars, lvars>>

\* The main flow calls the collaborator, handing it the context.
CallBegin ==
    /\ AtStep("call")
    /\ ~wpc.inflight
    /\ wpc' = [wpc EXCEPT !.inflight = TRUE]
    /\ UNCHANGED <<wop, wctx, tasks, reporter, wret>>
    /\ UNCHANGED <<mvars, rvars, lvars>>

\* What the collaborator may return: success, an error of its own, or the
\* context's error if it observes a context that is done.
Outcomes == {Nil, ErrCollaborator} \cup (IF wctx = "done" THEN {ErrCanceled} ELSE {})

\* The main flow after the collaborator has returned e: an error is
\* returned at once, success goes on to the next step or returns.
Continue(e) ==
    IF e # Nil
      THEN /\ wret' = [done |-> TRUE, err |-> Wrap(wop.op, e), outcome |-> e]
           /\ wpc' = [wpc EXCEPT !.inflight = FALSE]
    ELSE IF wpc.at = Len(Plan(wop.op, wop.verbose))
      THEN /\ wret' = [done |-> TRUE, err |-> Nil, outcome |-> Nil]
           /\ wpc' = [wpc EXCEPT !.inflight = FALSE]
    ELSE /\ wret' = wret
         /\ wpc' = [at |-> wpc.at + 1, inflight |-> FALSE]

\* A main flow that gives up the call when the context is done.
CallEndOrAbandon ==
    /\ AtStep("call")
    /\ wpc.inflight
    /\ \/ \E e \in Outcomes : Continue(e)
       \/ /\ wctx = "done"
          /\ wret' = [done |-> TRUE, err |-> ErrCanceled, outcome |-> Nil]
          /\ wpc' = wpc
    /\ UNCHANGED <<wop, wctx, tasks, reporter>>
    /\ UNCHANGED <<mvars, rvars, lvars>>

\* The collaborator returns and the main flow goes on.
CallEnd ==
    /\ AtStep("call")
    /\ wpc.inflight
    /\ \E e \in Outcomes : Continue(e)
    /\ UNCHANGED <<wop, wctx, tasks, reporter>>
    /\ UNCHANGED <<mvars, rvars, lvars>>

\* The caller cancels the context (or its deadline passes).
Cancel ==
    /\ wop.op # "idle"
    /\ wctx = "live"
    /\ wctx' = "done"
    /\ UNCHANGED <<wop, wpc, tasks, reporter, wret>>
    /\ UNCHANGED <<mvars, rvars, lvars>>

\* A task that signals without waiting for the context.
ObservesDoneAlways(task) == task.st = "waiting"

\* <-ctx.Done() can be received by the task.
ObservesDone(task) == task.st = "waiting" /\ wctx = "done"

\* A task receives from ctx.Done(), signals Stopping and ends (the
\* heartbeat stops its ticker first).
WatcherFires ==
    \E i \in 1..Len(tasks) :
        /\ ObservesDone(tasks[i])
        /\ tasks' = [tasks EXCEPT ![i].st = "ended"]
        /\ reporter' = [reporter EXCEPT !.stopping = @ + 1]
        /\ UNCHANGED <<wop, wpc, wctx, wret>>
        /\ UNCHANGED <<mvars, rvars, lvars>>

\* A heartbeat that goes on after its task has ended.
TickingForever(task) == task.kind = "heartbeat"

\* <-ticker.C can be received: the task is the heartbeat, in its loop.
Ticking(task) == task.kind = "heartbeat" /\ task.st = "waiting"

\* The ticker fires and the heartbeat's select takes it, which it may do
\* also when the context is done: c.progressListener.Increment(m[i]).
HeartbeatTick ==
    \E i \in 1..Len(tasks) :
        /\ Ticking(tasks[i])
        /\ reporter.beats < MaxBeats
        /\ reporter' = [reporter EXCEPT !.beats = @ + 1]
        /\ tasks' = [tasks EXCEPT ![i].late = @ \/ tasks[i].st = "ended"]
        /\ UNCHANGED <<wop, wpc, wctx, wret>>
        /\ UNCHANGED <<mvars, rvars, lvars>>

MainFlow == StartWatcher \/ printBuildActivity \/ CallBegin \/ CallEnd

WatchNext ==
    \/ StartWatcher
    \/ printBuildActivity
    \/ CallBegin
    \/ CallEnd
    \/ Cancel
    \/ WatcherFires
    \/ HeartbeatTick

SpecWatch == WatchInit /\ [][WatchNext]_vars

\* The scheduler runs every runnable goroutine and the collaborators
\* return; nothing obliges the caller to cancel or the ticker to be taken.
SpecWatchFair == SpecWatch /\ WF_vars(MainFlow) /\ WF_vars(WatcherFires)

\* The operations whose first statement starts a watcher of their own.
WatchedOps == {"New", "Deploy", "Run", "Info", "Remove", "Invoke", "RunPipeline"}

\* The tasks of the given kind that the given operation's code started.
TasksOf(owner, kind) ==
    {i \in 1..Len(tasks) : tasks[i].owner = owner /\ tasks[i].kind = kind}

TasksWhenComplete(op, verbose) ==
    CASE op = "New" -> IF verbose THEN 2 ELSE 3
      [] op = "Build" -> IF verbose THEN 0 ELSE 1
      [] op \in {"Push", "List"} -> 0
      [] OTHER -> 1

Ended == {i \in 1..Len(tasks) : tasks[i].st = "ended"}

C18_CancellationIsAdvisory ==
    /\ [](wret.done => ~wpc.inflight)
    /\ [](wret.done => /\ (wret.err = Nil <=> wret.outcome = Nil)
                       /\ Contains(wret.err, wret.outcome)
                       /\ wop.op # "RunPipeline" => wret.err = wret.outcome)
    /\ [][wctx' # wctx => (wpc' = wpc /\ wret' = wret /\ reporter' = reporter)]_vars
    /\ [][reporter'.stopping # reporter.stopping => (wpc' = wpc /\ wret' = wret)]_vars

\* The context was cancelled and Stopping signalled while the Remover was
\* at work, and Remove has not returned.
C18_Witness ==
    /\ wop.op = "Remove"
    /\ wpc.inflight
    /\ wctx = "done"
    /\ reporter.stopping = 1
    /\ ~wret.done

Heartbeats == {i \in 1..Len(tasks) : tasks[i].kind = "heartbeat"}

\* C19: a Build that is not verbose starts exactly one heartbeat task, as
\* its first step; while that task has not observed the context done it can
\* emit an increment, during the Build and after it; once it has observed
\* the context done it has signalled Stopping, emits nothing more, and a
\* context that is done always brings it to its end.  A verbose Build
\* starts no heartbeat and no heartbeat increment is emitted.
C19_HeartbeatUntilDone ==
    /\ [](Cardinality(Heartbeats) <= 1)
    /\ []((wop.op = "Build" /\ ~wop.verbose /\ (wpc.at > 1 \/ wret.done))
             => Cardinality(Heartbeats) = 1)
    /\ [](wop.verbose => (Heartbeats = {} /\ reporter.beats = 0))
    /\ [](reporter.beats > 0 => Heartbeats # {})
    /\ [](\A i \in Heartbeats :
             /\ ~tasks[i].late
             /\ tasks[i].st = "ended" => (wctx = "done" /\ reporter.stopping >= 1)
             /\ (tasks[i].st = "waiting" /\ reporter.beats < MaxBeats) => ENABLED HeartbeatTick)
    /\ (wctx = "done" /\ Heartbeats # {}) ~> (\A i \in Heartbeats : tasks[i].st = "ended")

\* The heartbeat of a Build emitted twice and ended after the Build had
\* returned.
C19_Witness ==
    /\ wop.op = "Build"
    /\ wret.done
    /\ reporter.beats >= 2
    /\ \E i \in Heartbeats : tasks[i].st = "ended"

(***************************************************************************)
(* The Client that New(options...) returns when no collaborator option is  *)
(* given: every collaborator is the no-op of the defaults section.         *)
(***************************************************************************)
noopBuilder == Nil

noopPusher == [digest |-> "", err |-> Nil]

noopDeployer == [status |-> "Failed", url |-> "", err |-> Nil]

noopRunner == [job |-> NoJob, err |-> Nil]

noopRemover == Nil

noopLister == Nil

\* A Describer that describes nothing and reports no error.
quietDescriber == Nil

noopDescriber == <<"no", "describer", "provided">>

noopPipelinesProvider == [Run |-> Nil, Remove |-> Nil]

noopDNSProvider == Nil

ErrNotInitializedRun == <<"the", "given", "path", "does", "not", "contain", "an", "initialized", "Function">>

ErrNotInitializedInfo == <<"is", "not", "initialized">>

\* A Run that hands back a Job only when the Runner reported no error.
RunDropsJobOnError(f, root, ran, t) ==
    LET l == NewFunction(root, f.yaml, t)
    IN  IF l.err # Nil THEN Ret(f, l.err, << >>, l)
        ELSE IF ~Initialized(l.f) THEN Ret(f, ErrNotInitializedRun, << >>, l)
        ELSE IF ran.err # Nil THEN Ret(f, ran.err, <<"Runner.Run">>, l)
        ELSE [Ret(f, ran.err, <<"Runner.Run">>, l) EXCEPT !.job = ran.job]

\* Client.Run(ctx, root); ran is what c.runner.Run returns, a Job and an
\* error.
Run(f, root, ran, t) ==
    LET l == NewFunction(root, f.yaml, t)
    IN  IF l.err # Nil THEN Ret(f, l.err, << >>, l)
        ELSE IF ~Initialized(l.f) THEN Ret(f, ErrNotInitializedRun, << >>, l)
        ELSE [Ret(f, ran.err, <<"Runner.Run">>, l) EXCEPT !.job = ran.job]

\* r, the operation having handed the name to its collaborators.
Naming(r, name) == [r EXCEPT !.target = name]

\* An Info that loads the descriptor at root whether or not it is given a
\* name.
InfoLoadsFirst(f, name, root, describeErr, t) ==
    LET l == NewFunction(root, f.yaml, t)
    IN  IF l.err # Nil THEN Ret(f, l.err, << >>, l)
        ELSE IF name # "" THEN Naming(Ret(f, describeErr, <<"Describer.Describe">>, l), name)
        ELSE IF ~Initialized(l.f) THEN Ret(f, ErrNotInitializedInfo, << >>, l)
        ELSE Naming(Ret(f, describeErr, <<"Describer.Describe">>, l), l.f.Name)

\* Client.Info(ctx, name, root); describeErr is what c.describer.Describe
\* returns.
Info(f, name, root, describeErr, t) ==
    LET l == NewFunction(root, f.yaml, t)
        unloaded == NoResult(EmptyFunction(root))
    IN  IF name # ""
          THEN Naming(Ret(f, describeErr, <<"Describer.Describe">>, unloaded), name)
        ELSE IF l.err # Nil THEN Ret(f, l.err, << >>, l)
        ELSE IF ~Initialized(l.f) THEN Ret(f, ErrNotInitializedInfo, << >>, l)
        ELSE Naming(Ret(f, describeErr, <<"Describer.Describe">>, l), l.f.Name)

\* Client.List(ctx); listErr is what c.lister.List returns.
List(f, listErr) == Ret(f, listErr, <<"Lister.List">>, NoResult(EmptyFunction(ProjectRoot)))

\* What Remove reports before the removals.
RemovingMessages(name, deleteAll) ==
    <<Increment("Removing Knative Service: " \o name)>>
    \o IF deleteAll
         THEN <<Increment("Removing Knative Service '" \o name \o "' and all dependent resources")>>
         ELSE << >>

\* A Remove that removes the pipeline resources whether or not it is asked to.
RemoveAlwaysAll(f, cfg, deleteAll, errService, errResources, t) ==
    LET l == NewFunction(cfg.Root, f.yaml, t)
        unloaded == NoResult(EmptyFunction(cfg.Root))
        used == IF cfg.Name = "" THEN l ELSE unloaded
        functionName == IF cfg.Name = "" THEN l.f.Name ELSE cfg.Name
        both == <<"Remover.Remove", "PipelinesProvider.Remove">>
        said == RemovingMessages(functionName, deleteAll)
    IN  IF cfg.Name = "" /\ l.err # Nil THEN Ret(f, l.err, << >>, l)
        ELSE IF cfg.Name = "" /\ ~Initialized(l.f) THEN Ret(f, ErrNotInitialized, << >>, l)
        ELSE Naming(Reporting(Ret(f, RemoveResult(errService, errResources), both, used), said),
                    functionName)

\* Client.Remove(ctx, cfg, deleteAll) from its call to its result, the two
\* removals having returned errService and errResources.
Remove(f, cfg, deleteAll, errService, errResources, t) ==
    LET l == NewFunction(cfg.Root, f.yaml, t)
        unloaded == NoResult(EmptyFunction(cfg.Root))
        used == IF cfg.Name = "" THEN l ELSE unloaded
        functionName == IF cfg.Name = "" THEN l.f.Name ELSE cfg.Name
        both == <<"Remover.Remove", "PipelinesProvider.Remove">>
        said == RemovingMessages(functionName, deleteAll)
    IN  IF cfg.Name = "" /\ l.err # Nil THEN Ret(f, l.err, << >>, l)
        ELSE IF cfg.Name = "" /\ ~Initialized(l.f) THEN Ret(f, ErrNotInitialized, << >>, l)
        ELSE IF deleteAll
          THEN Naming(Reporting(Ret(f, RemoveResult(errService, errResources), both, used), said),
                      functionName)
        ELSE Naming(Reporting(Ret(f, RemoveResult(errService, Nil), <<"Remover.Remove">>, used), said),
                    functionName)

\* A RunPipeline that reports success whatever the provider returned.
RunPipelineSwallows(f, path, runErr, t) ==
    LET l == NewFunction(path, f.yaml, t)
    IN  IF l.err # Nil
          THEN Ret(f, <<"failed", "to", "laod", "function:">> \o l.err, << >>, l)
        ELSE Ret(f, Nil, <<"PipelinesProvider.Run">>, l)

\* Client.RunPipeline(ctx, path, git); runErr is what
\* c.pipelinesProvider.Run returns.
RunPipeline(f, path, runErr, t) ==
    LET l == NewFunction(path, f.yaml, t)
    IN  IF l.err # Nil
          THEN Ret(f, <<"failed", "to", "laod", "function:">> \o l.err, << >>, l)
        ELSE IF runErr # Nil
          THEN Ret(f, Wrap("RunPipeline", runErr), <<"PipelinesProvider.Run">>, l)
        ELSE Ret(f, Nil, <<"PipelinesProvider.Run">>, l)

\* cfg.Name handed to Info and Remove: none, or the name of a service.
Names == {"", "g"}

DefaultBuild ==
    /\ clock < MaxClock
    /\ \E reg \in Registries :
           Leaves("Build", reg, Build(fs, ProjectRoot, reg, noopBuilder, clock), 1)

DefaultPush ==
    /\ clock < MaxClock
    /\ Leaves("Push", noopPusher, Push(fs, ProjectRoot, noopPusher, clock), 1)

DefaultDeploy ==
    /\ last.op # "Deploy"
    /\ Leaves("Deploy", noopDeployer, Deploy(fs, ProjectRoot, noopDeployer, clock), 0)

DefaultRoute ==
    /\ last.op # "Route"
    /\ Leaves("Route", noopDNSProvider, Route(fs, ProjectRoot, noopDNSProvider, clock), 0)

DefaultRun ==
    /\ last.op # "Run"
    /\ Leaves("Run", noopRunner, Run(fs, ProjectRoot, noopRunner, clock), 0)

DefaultInfo ==
    \E name \in Names :
        Leaves("Info", name, Info(fs, name, ProjectRoot, noopDescriber, clock), 0)

DefaultList ==
    /\ last.op # "List"
    /\ Leaves("List", noopLister, List(fs, noopLister), 0)

DefaultRemove ==
    \E name \in Names, deleteAll \in BOOLEAN :
        Leaves("Remove", [Name |-> name, deleteAll |-> deleteAll],
               Remove(fs, [Root |-> ProjectRoot, Name |-> name], deleteAll,
                      noopRemover, noopPipelinesProvider.Remove, clock), 0)

DefaultRunPipeline ==
    /\ last.op # "RunPipeline"
    /\ Leaves("RunPipeline", noopPipelinesProvider.Run,
              RunPipeline(fs, ProjectRoot, noopPipelinesProvider.Run, clock), 0)

DefaultNext ==
    \/ DefaultBuild
    \/ DefaultPush
    \/ DefaultDeploy
    \/ DefaultRoute
    \/ DefaultRun
    \/ DefaultInfo
    \/ DefaultList
    \/ DefaultRemove
    \/ DefaultRunPipeline
    \/ UserLocksStamp

SpecDefault == LifecycleInit /\ [][DefaultNext]_vars

\* The operations of a Client that go to a collaborator.
DefaultOps == {"Build", "Push", "Deploy", "Route", "Run", "Info", "List", "Remove", "RunPipeline"}

\* The operation recorded in l found its own preconditions met: a descriptor
\* that loads, and what the operation asks of it before it goes to its
\* collaborator (an image or a registry and a writable stamp for Build, an
\* image for Push and Deploy, a name or an initialized Function for Info and
\* Remove, an initialized Function for Run).
PreconditionsHold(l) ==
    LET loads == l.load.err = Nil
    IN  CASE l.op = "Build" ->
               /\ loads
               /\ (l.load.f.Image # "" \/ l.in # "")
               /\ ~(l.pre.locked /\ Exists(l.pre, BuildStampPath))
          [] l.op \in {"Push", "Deploy"} -> loads /\ HasImage(l.load.f)
          [] l.op \in {"Route", "RunPipeline"} -> loads
          [] l.op = "Run" -> loads /\ Initialized(l.load.f)
          [] l.op = "Info" -> l.in # "" \/ (loads /\ Initialized(l.load.f))
          [] l.op = "Remove" -> l.in.Name # "" \/ (loads /\ Initialized(l.load.f))
          [] l.op = "List" -> TRUE
          [] OTHER -> FALSE

\* C20, as stated: on a Client constructed without any collaborator option
\* every collaborator is a no-op that succeeds, so each of Build, Push,
\* Deploy, Route, Run, Info, List, Remove and RunPipeline whose own
\* preconditions hold returns success.
C20_DefaultsAllSucceed ==
    (last.op \in DefaultOps /\ PreconditionsHold(last)) => last.err = Nil

\* C20, as the code has it: on a Client constructed without any collaborator
\* option the Builder, Pusher, Deployer, Runner, Remover, Lister, DNSProvider
\* and PipelinesProvider succeed trivially, and Build, Push, Deploy, Route,
\* Run, List, Remove and RunPipeline return success when their own
\* preconditions hold and reach their collaborator; the default Describer
\* returns the error "no describer provided", and so does Info.
C20_DefaultsSucceedButDescriber ==
    /\ noopBuilder = Nil /\ noopPusher.err = Nil /\ noopDeployer.err = Nil
    /\ noopRunner.err = Nil /\ noopRemover = Nil /\ noopLister = Nil
    /\ noopDNSProvider = Nil
    /\ noopPipelinesProvider.Run = Nil /\ noopPipelinesProvider.Remove = Nil
    /\ (last.op \in DefaultOps \ {"Info"} /\ PreconditionsHold(last)) =>
           /\ last.err = Nil
           /\ last.calls # << >>
    /\ (last.op = "Info" /\ PreconditionsHold(last)) =>
           /\ last.err = <<"no", "describer", "provided">>
           /\ last.calls = <<"Describer.Describe">>
    /\ (last.op \in DefaultOps /\ ~PreconditionsHold(last)) => last.err # Nil

\* Info of the initialized Function at the root, no name given, on the
\* default Client.
C20_Witness ==
    /\ last.op = "Info"
    /\ last.in = ""
    /\ Initialized(last.load.f)
    /\ last.err = noopDescriber

\* The last call an operation made on the ProgressListener.
LastReport(l) == l.progress[Len(l.progress)]

C21_WitnessDeployed ==
    /\ last.op = "Deploy"
    /\ last.in.status = "Deployed"
    /\ last.calls = <<"Deployer.Deploy">>
    /\ Len(last.progress) = 2

C22_WitnessFailed ==
    /\ last.op = "Push"
    /\ last.calls = <<"Pusher.Push">>
    /\ last.err = ErrPusher


\* The stamp file of tree f is the one of tree g: same content, same
\* modification time, or absent in both.
SameStamp(f, g) ==
    /\ f.stamp = g.stamp
    /\ Exists(f, BuildStampPath) = Exists(g, BuildStampPath)
    /\ Exists(f, BuildStampPath) => f.mtime[BuildStampPath] = g.mtime[BuildStampPath]

C23_WitnessFailed ==
    /\ last.op = "Build"
    /\ last.err = ErrBuilder
    /\ Exists(fs, BuildStampPath)

(***************************************************************************)
(* Specification of the Client's operations alone, without edits by the    *)
(* user: the lifecycle operations and the operations on a deployed         *)
(* Function (Run, Info, List, Remove, RunPipeline), with collaborators that *)
(* succeed or fail.                                                        *)
(***************************************************************************)
ErrRunner == <<"runner", "failed">>

ErrDescriber == <<"describer", "failed">>

ErrLister == <<"lister", "failed">>

ErrPipeline == <<"pipeline", "failed">>

\* What a Runner returns: a Job, an error, or both.
RunOutcomes ==
    { [job |-> [id |-> "job1", stopped |-> FALSE], err |-> Nil],
      [job |-> NoJob, err |-> ErrRunner],
      [job |-> [id |-> "job1", stopped |-> FALSE], err |-> ErrRunner] }

DoRun ==
    \E ran \in RunOutcomes :
        Leaves("Run", ran, Run(fs, ProjectRoot, ran, clock), 0)

DoInfo ==
    \E name \in Names, de \in {Nil, ErrDescriber} :
        Leaves("Info", [Name |-> name, err |-> de],
               Info(fs, name, ProjectRoot, de, clock), 0)

DoList ==
    \E le \in {Nil, ErrLister} :
        Leaves("List", le, List(fs, le), 0)

DoRemove ==
    \E name \in Names, deleteAll \in BOOLEAN,
       es \in {Nil, ErrService}, er \in {Nil, ErrResources} :
        Leaves("Remove",
               [Name |-> name, deleteAll |-> deleteAll, errService |-> es, errResources |-> er],
               Remove(fs, [Root |-> ProjectRoot, Name |-> name], deleteAll, es, er, clock), 0)

DoRunPipeline ==
    \E pe \in {Nil, ErrPipeline} :
        Leaves("RunPipeline", pe, RunPipeline(fs, ProjectRoot, pe, clock), 0)

ErrInvoke == <<"invoke", "failed">>

\* Client.Invoke(ctx, root, target, m); invokeErr is what invoke returns.
Invoke(f, root, invokeErr, t) ==
    LET l == NewFunction(root, f.yaml, t)
    IN  IF l.err # Nil THEN Ret(f, l.err, << >>, l)
        ELSE Ret(f, invokeErr, <<"invoke">>, l)

DoInvoke ==
    \E ie \in {Nil, ErrInvoke} :
        Leaves("Invoke", ie, Invoke(fs, ProjectRoot, ie, clock), 0)

ClientNext ==
    \/ DoCreate
    \/ DoBuild
    \/ DoPush
    \/ DoDeploy
    \/ DoRoute
    \/ DoNew
    \/ DoRun
    \/ DoInfo
    \/ DoList
    \/ DoRemove
    \/ DoRunPipeline
    \/ DoInvoke
    \/ DoBuilt
    \/ UserLocksStamp

SpecClient == LifecycleInit /\ [][ClientNext]_vars

\* C24: a Run on a root whose descriptor does not load or is not initialized
\* returns an error, no Job, and has not invoked the Runner; on an
\* initialized descriptor Run invokes the Runner exactly once and nothing
\* else, and returns the Job and the error the Runner returned, the Job when
\* the Runner failed included, the Job as the Runner left it (not stopped).
C24_RunReturnsRunnersJob ==
    last.op = "Run" =>
        /\ (last.load.err # Nil \/ ~Initialized(last.load.f)) =>
               /\ last.err # Nil
               /\ last.calls = << >>
               /\ last.job = NoJob
        /\ (last.load.err = Nil /\ Initialized(last.load.f)) =>
               /\ last.calls = <<"Runner.Run">>
               /\ last.job = last.in.job
               /\ last.err = last.in.err
               /\ ~last.job.stopped
        /\ fs = last.pre

\* A Run whose Runner returned a Job and an error.
C24_Witness ==
    /\ last.op = "Run"
    /\ last.calls = <<"Runner.Run">>
    /\ last.err = ErrRunner
    /\ last.job.id = "job1"

\* A Run refused on a root without an initialized Function.
C24_WitnessRefused ==
    /\ last.op = "Run"
    /\ last.err = ErrNotInitializedRun
    /\ last.calls = << >>

\* What the collaborators of the Info or Remove recorded in l returned, as
\* the operation returns it.
CollaboratorsReturned(l) ==
    IF l.op = "Info" THEN l.in.err
    ELSE RemoveResult(l.in.errService, IF l.in.deleteAll THEN l.in.errResources ELSE Nil)

\* C25: an Info or a Remove that is given a name hands that name to its
\* collaborators and returns what they return whatever is at root, a
\* descriptor that does not load included; given no name it loads the
\* descriptor at root and hands over the name recorded there; and when that
\* descriptor does not load or is not initialized it returns an error and has
\* invoked no collaborator.
C25_NameTakesPrecedence ==
    last.op \in {"Info", "Remove"} =>
        /\ last.in.Name # "" =>
               /\ last.target = last.in.Name
               /\ last.calls # << >>
               /\ last.err = CollaboratorsReturned(last)
               /\ last.load = NoResult(EmptyFunction(ProjectRoot))
        /\ (last.in.Name = "" /\ last.load.err = Nil /\ Initialized(last.load.f)) =>
               /\ last.target = last.load.f.Name
               /\ last.target = last.pre.yaml.Name
               /\ last.calls # << >>
               /\ last.err = CollaboratorsReturned(last)
        /\ (last.in.Name = "" /\ (last.load.err # Nil \/ ~Initialized(last.load.f))) =>
               /\ last.err # Nil
               /\ last.calls = << >>
               /\ last.target = ""
        /\ last.calls \in
               { << >>, <<"Describer.Describe">>, <<"Remover.Remove">>,
                 <<"Remover.Remove", "PipelinesProvider.Remove">> }
        /\ fs = last.pre

\* An Info by name succeeded on a root whose descriptor does not load.
C25_Witness ==
    /\ last.op = "Info"
    /\ last.in.Name = "g"
    /\ last.err = Nil
    /\ NewFunction(ProjectRoot, fs.yaml, clock).err # Nil

\* A Remove without a name used the name of the descriptor at root.
C25_WitnessLoaded ==
    /\ last.op = "Remove"
    /\ last.in.Name = ""
    /\ last.target = "f"
    /\ last.calls = <<"Remover.Remove", "PipelinesProvider.Remove">>

\* A Remove without a name was refused on a root without a Function.
C25_WitnessRefused ==
    /\ last.op = "Remove"
    /\ last.in.Name = ""
    /\ last.err = ErrNotInitialized
    /\ last.calls = << >>

\* The Built recorded in l met an I/O error: the descriptor did not load, or
\* it loaded with an image and the stamp could not be stat'ed or read.
BuiltMetError(l) ==
    \/ l.load.err # Nil
    \/ /\ l.load.err = Nil
       /\ HasImage(l.load.f)
       /\ (~Exists(l.pre, BuildStampPath) \/ l.pre.locked)

C26_WitnessUnreadable ==
    /\ last.op = "Built"
    /\ fs.locked
    /\ last.stderr = <<ErrReadStamp>>

(***************************************************************************)
(* Specification of the fingerprint: it is computed once on a tree (the    *)
(* first call, at a root path), the user edits the tree, and it is         *)
(* computed again, at the same root path or at another one.  last.of is    *)
(* the tree of the first call, fs the tree as it is now.                   *)
(***************************************************************************)
MaxMtime == 2

\* The modification times an entry may carry.
FTimes == 1..MaxMtime

\* The root paths a project is addressed by: relative, absolute, and
\* absolute at another place.
FRoots == {".", ProjectRoot, OtherRoot}

\* The files the user keeps in the root.
UserFiles == {FileA, ColonFile, FileB}

\* The trees of the first call: a root with the files a and b, with or
\* without a run data directory and a version-control directory.
FInitialTrees ==
    { [q \in {".", FileA, FileB} \cup func \cup git |->
          IF q = FileB THEN MaxMtime ELSE 1] :
        func \in {{}, {RunDataDir, BuildStampPath}},
        git \in {{}, {GitDir, GitHead}} }

\* The (relative path, modification time) pairs of the entries the walk
\* visits.
VisitedEntries(root, mt) ==
    { <<q, mt[q]>> : q \in {r \in DOMAIN mt : ~WalkSkips(root, r)} }

FingerprintInit ==
    /\ \E mt \in FInitialTrees, root \in FRoots :
           /\ fs = [mtime |-> mt, yaml |-> NoFile, stamp |-> << >>, locked |-> FALSE,
                    ignore |-> << >>]
           /\ last = [ op |-> "fingerprint", root |-> root, of |-> mt,
                       hash |-> fingerprint(root, mt),
                       again |-> [called |-> FALSE, root |-> root, hash |-> << >>] ]
    /\ clock = 0
    /\ dirty = {}
    /\ MigrateIdle
    /\ RemoveIdle
    /\ WatchIdle

\* The tree is left as mt by an edit.
FEdited(mt) ==
    /\ fs' = [fs EXCEPT !.mtime = mt]
    /\ last' = [last EXCEPT !.again = [called |-> FALSE, root |-> last.root, hash |-> << >>]]
    /\ UNCHANGED <<clock, dirty>>
    /\ UNCHANGED mvars
    /\ UNCHANGED wvars
    /\ UNCHANGED rvars

\* utimes: the user (or a tool) sets the modification time of an entry
\* outside the excluded directories, the root included.
FTouches ==
    \E p \in UserFiles \cup {"."}, t \in FTimes :
        /\ Exists(fs, p)
        /\ FEdited(SetMtime(fs.mtime, p, t))

FCreates ==
    \E p \in UserFiles, t \in FTimes :
        /\ ~Exists(fs, p)
        /\ FEdited(WriteFileAt(fs.mtime, p, t))

FDeletes ==
    \E p \in UserFiles, t \in FTimes :
        /\ Exists(fs, p)
        /\ FEdited(RemoveAt(fs.mtime, p, t))

\* rename(2): the entry keeps its modification time, the directory is
\* modified.
FRenames ==
    \E p \in UserFiles, q \in UserFiles, t \in FTimes :
        /\ Exists(fs, p)
        /\ ~Exists(fs, q)
        /\ FEdited(SetMtime(SetMtime(RemoveAt(fs.mtime, p, t), q, fs.mtime[p]), ".", t))

\* An entry inside the run data directory or the version-control directory
\* is created, modified or deleted.
FInsideCreates ==
    \E p \in {BuildStampPath, GitHead}, t \in FTimes :
        /\ ~Exists(fs, p)
        /\ Exists(fs, Parent(p))
        /\ FEdited(WriteFileAt(fs.mtime, p, t))

FInsideModifies ==
    \E p \in {BuildStampPath, GitHead}, t \in FTimes :
        /\ Exists(fs, p)
        /\ FEdited(SetMtime(fs.mtime, p, t))

FInsideDeletes ==
    \E p \in {BuildStampPath, GitHead}, t \in FTimes :
        /\ Exists(fs, p)
        /\ FEdited(RemoveAt(fs.mtime, p, t))

\* fingerprint is called again, on the tree as it is, at some root path.
FingerprintAgain ==
    /\ ~last.again.called
    /\ \E root \in FRoots :
           last' = [last EXCEPT !.again = [called |-> TRUE, root |-> root,
                                           hash |-> fingerprint(root, fs.mtime)]]
    /\ UNCHANGED <<fs, clock, dirty>>
    /\ UNCHANGED mvars
    /\ UNCHANGED wvars
    /\ UNCHANGED rvars

FingerprintNext ==
    \/ FTouches
    \/ FCreates
    \/ FDeletes
    \/ FRenames
    \/ FInsideCreates
    \/ FInsideModifies
    \/ FInsideDeletes
    \/ FingerprintAgain

SpecFingerprint == FingerprintInit /\ [][FingerprintNext]_vars

\* C27: fingerprint is a deterministic and injective function of the
\* (path, modification time) pairs of the entries it visits: called again at
\* the same root path it returns the value of the first call exactly when
\* the visited entries and their modification times are those of the first
\* call.
C27_FingerprintInjective ==
    (last.again.called /\ last.again.root = last.root) =>
        ( last.again.hash = last.hash
            <=> VisitedEntries(last.root, fs.mtime) = VisitedEntries(last.root, last.of) )

\* The half of C27 that holds: the same entries give the same fingerprint.
FingerprintDeterministic ==
    (last.again.called /\ last.again.root = last.root
       /\ VisitedEntries(last.root, fs.mtime) = VisitedEntries(last.root, last.of))
    => last.again.hash = last.hash

\* Injective at the absolute root paths.
FingerprintInjectiveAbsolute ==
    (last.again.called /\ last.again.root = last.root /\ last.root # "."
       /\ last.again.hash = last.hash)
    => VisitedEntries(last.root, fs.mtime) = VisitedEntries(last.root, last.of)

\* The tree mt differs from the tree of the first call inside the run data
\* directory and the version-control directory at most: every other entry
\* is in both, with the same modification time.
SameOutsideExcluded(mt, of) ==
    \A q \in (DOMAIN mt \cup DOMAIN of) \ {BuildStampPath, GitHead} :
        /\ q \in DOMAIN mt
        /\ q \in DOMAIN of
        /\ (q \notin {RunDataDir, GitDir} => mt[q] = of[q])

\* C28: creating, modifying or deleting entries inside the run data
\* directory or the version-control directory leaves the fingerprint as it
\* was: a fingerprint taken again on a tree that differs from the one of
\* the first call inside these directories only is the one of the first
\* call, so that the stamp written into the run data directory still
\* matches.
C28_ExcludedDirsInvisible ==
    (last.again.called /\ last.again.root = last.root
       /\ SameOutsideExcluded(fs.mtime, last.of))
    => last.again.hash = last.hash

\* The stamp file was written after the first call, and the fingerprint
\* taken again is the one of the first call.
C28_Witness ==
    /\ last.again.called
    /\ last.again.root = last.root
    /\ last.again.hash = last.hash
    /\ Exists(fs, BuildStampPath)
    /\ BuildStampPath \in DOMAIN last.of
    /\ fs.mtime[BuildStampPath] # last.of[BuildStampPath]
    /\ fs.mtime[RunDataDir] = last.of[RunDataDir]

\* C29: the fingerprint depends on the paths of the entries relative to the
\* root and on their modification times only: taken again at another root
\* path on a tree with the same relative entries and the same modification
\* times, it is the fingerprint of the first call.
C29_FingerprintIgnoresRoot ==
    (last.again.called /\ last.again.root # last.root /\ fs.mtime = last.of)
    => last.again.hash = last.hash

\* What does hold: at another root path the fingerprint of any tree differs
\* from the one of the first call.
FingerprintNamesRoot ==
    (last.again.called /\ last.again.root # last.root) => last.again.hash # last.hash

\* The operations that go to collaborators whose answer is recorded.
CollaboratorOps ==
    {"Build", "Push", "Deploy", "Route", "New", "Run", "Info", "List", "Remove", "RunPipeline"}

\* The error collaborator c returned to the operation recorded in l.
ReturnedBy(l, c) ==
    CASE l.op = "New" ->
           ( CASE c = "Templates.Write" -> l.in.template
               [] c = "Builder.Build" -> l.in.builder
               [] c = "Pusher.Push" -> l.in.pusher.err
               [] c = "Deployer.Deploy" -> l.in.deployer.err
               [] OTHER -> l.in.dns )
      [] l.op = "Remove" ->
           IF c = "Remover.Remove" THEN l.in.errService ELSE l.in.errResources
      [] l.op \in {"Push", "Deploy", "Run", "Info"} -> l.in.err
      [] OTHER -> l.in

\* C30: an operation invokes each collaborator at most once, and when a
\* collaborator it invoked returned an error the operation returns an error,
\* one that holds the collaborator's.
C30_NoRetryNoSwallow ==
    last.op \in CollaboratorOps =>
        /\ \A i, j \in 1..Len(last.calls) : last.calls[i] = last.calls[j] => i = j
        /\ \A i \in 1..Len(last.calls) :
               ReturnedBy(last, last.calls[i]) # Nil =>
                   /\ last.err # Nil
                   /\ Contains(last.err, ReturnedBy(last, last.calls[i]))

\* A New whose Deployer failed, after the Builder and the Pusher had
\* succeeded: each was invoked once and New returns the Deployer's error.
C30_Witness ==
    /\ last.op = "New"
    /\ last.calls = <<"Templates.Write", "Builder.Build", "Pusher.Push", "Deployer.Deploy">>
    /\ last.err = ErrDeployer

\* A RunPipeline whose provider failed.
C30_WitnessPipeline ==
    /\ last.op = "RunPipeline"
    /\ last.in = ErrPipeline
    /\ last.calls = <<"PipelinesProvider.Run">>
    /\ last.err # Nil

\* The operations that only read the project.
ReadOnlyOps ==
    {"Deploy", "Run", "Route", "Info", "List", "Remove", "Invoke", "RunPipeline", "Built"}

\* C31: Deploy, Run, Route, Info, List, Remove, Invoke, RunPipeline and
\* Built write nothing under the root: the descriptor file, the stamp and
\* every modification time are after each of them what they were before,
\* whether the operation succeeded or failed.
C31_ReadOnlyOperations ==
    last.op \in ReadOnlyOps =>
        /\ fs.yaml = last.pre.yaml
        /\ SameStamp(fs, last.pre)
        /\ fs = last.pre

\* A Deploy succeeded on a built project whose descriptor file is a legacy
\* one, and left it so.
C31_Witness ==
    /\ last.op = "Deploy"
    /\ last.err = Nil
    /\ last.calls = <<"Deployer.Deploy">>
    /\ fs.yaml # Marshal(last.load.f)
    /\ fs = last.pre

\* A RunPipeline ran on a project that has a stamp.
C31_WitnessPipeline ==
    /\ last.op = "RunPipeline"
    /\ last.calls = <<"PipelinesProvider.Run">>
    /\ Exists(fs, BuildStampPath)
    /\ fs = last.pre

(***************************************************************************)
(* What New reports to the ProgressListener.                               *)
(***************************************************************************)

\* The calls of kind call among those of progress, in order.
RECURSIVE CallsOf(_, _)
CallsOf(progress, call) ==
    IF progress = << >> THEN << >>
    ELSE IF Head(progress).call = call
         THEN <<Head(progress)>> \o CallsOf(Tail(progress), call)
         ELSE CallsOf(Tail(progress), call)

\* The Increments New itself makes, one before each of Build, Push, Deploy
\* and Route.
NewIncrements ==
    Announces("Build") \o Announces("Push") \o Announces("Deploy") \o Announces("Route")

\* C32: a successful New reports exactly four increments (build, push,
\* deploy, route) in that order, no more than the total it declared, and
\* then exactly one completion; a New that failed reports no completion.
C32_NewProgress ==
    last.op = "New" =>
        LET p == last.progress
            totals == CallsOf(p, "SetTotal")
        IN  /\ last.err = Nil =>
                /\ CallsOf(p, "Increment") = NewIncrements
                /\ Len(totals) = 1
                /\ Len(CallsOf(p, "Increment")) <= totals[1].n
                /\ CallsOf(p, "Complete") = <<Complete("Done")>>
                /\ p[Len(p)] = Complete("Done")
            /\ last.err # Nil => CallsOf(p, "Complete") = << >>

\* The part of C32 the code keeps: the four increments of New are among the
\* reported ones in that order, and one completion ends a successful New
\* and no other.
C32_CompletionOnlyOnSuccess ==
    last.op = "New" =>
        LET p == last.progress
        IN  /\ last.err = Nil =>
                /\ InOrderOf(NewIncrements, CallsOf(p, "Increment"))
                /\ CallsOf(p, "Complete") = <<Complete("Done")>>
                /\ p[Len(p)] = Complete("Done")
            /\ last.err # Nil => CallsOf(p, "Complete") = << >>

\* A successful New that reported eight increments against a total of three.
C32_EightIncrements ==
    /\ last.op = "New"
    /\ last.err = Nil
    /\ Len(CallsOf(last.progress, "Increment")) = 8
    /\ last.progress[1] = SetTotal(3)

(***************************************************************************)
(* The run command (cmd/run.go), up to the start of the Job.               *)
(***************************************************************************)
ErrNotInitializedCmd == <<"the given path does not contain an initialized function">>

ErrInvalidBuild == <<"invalid value for --build">>

\* strconv.ParseBool
ParseBool(s) ==
    IF s \in {"1", "t", "T", "TRUE", "true", "True"} THEN [value |-> TRUE, err |-> Nil]
    ELSE IF s \in {"0", "f", "F", "FALSE", "false", "False"} THEN [value |-> FALSE, err |-> Nil]
    ELSE [value |-> FALSE, err |-> <<"strconv.ParseBool: invalid syntax">>]

\* The values of --build tried: the default, --build, --build=false, a
\* truthy digit, and one that does not parse.
BuildFlags == {"auto", "true", "false", "1", "maybe"}

\* A run config: updated says whether the --env flags changed the
\* Descriptor's environment (updated > 0).
RunConfigs ==
    [Path : {ProjectRoot}, Build : BuildFlags, Registry : Registries, updated : BOOLEAN]

\* The tree when the command comes to its build decision: the Descriptor
\* has been written if the --env flags changed it.
TreeAtBuildDecision(f, config, t) ==
    IF config.updated THEN Write(f, NewFunction(config.Path, f.yaml, t).f, t) ELSE f

\* client.Built(function.Root) at the build decision.
BuiltAtDecision(f, config, t) ==
    Built(TreeAtBuildDecision(f, config, t), NewFunction(config.Path, f.yaml, t).f.Root, t)

\* A build decision that takes auto for true.
BuildsAlwaysOnAuto(f, config, t) ==
    IF config.Build = "auto" THEN TRUE ELSE ParseBool(config.Build).value

\* Whether the command calls client.Build: on auto when Built answers
\* false, else as the flag parses.
BuildsFirst(f, config, t) ==
    IF config.Build = "auto" THEN ~BuiltAtDecision(f, config, t)
    ELSE ParseBool(config.Build).value

\* One call the command makes on the client, after what it did so far.
CmdStage(acc, name, r) ==
    IF acc.err # Nil THEN acc
    ELSE [ fs |-> r.fs, err |-> r.err, calls |-> acc.calls \o r.calls,
           stages |-> Append(acc.stages, [stage |-> name, err |-> r.err]),
           load |-> acc.load, progress |-> acc.progress \o r.progress,
           job |-> r.job, target |-> "" ]

\* The command before its build decision: the Descriptor loaded, written if
\* the --env flags changed it, and found initialized; the --build value
\* is parsed at the decision.
CmdLoaded(f, config, t) ==
    LET l == NewFunction(config.Path, f.yaml, t)
        f1 == TreeAtBuildDecision(f, config, t)
    IN  IF l.err # Nil THEN Ret(f, l.err, << >>, l)
        ELSE IF ~Initialized(l.f) THEN Ret(f1, ErrNotInitializedCmd, << >>, l)
        ELSE IF config.Build # "auto" /\ ParseBool(config.Build).err # Nil
          THEN Ret(f1, ErrInvalidBuild, << >>, l)
        ELSE Ret(f1, Nil, << >>, l)

\* runRun up to client.Run: load, build as --build says (s1), and start the
\* Job on what that left.
runRun(f, config, out, t) ==
    Only({ CmdStage(s1, "Run", Run(s1.fs, config.Path, out.runner, t + 1)) :
      s1 \in { IF BuildsFirst(f, config, t)
                 THEN CmdStage(s0, "Build",
                               Build(s0.fs, config.Path, config.Registry, out.builder, t + 1))
                 ELSE s0 :
        s0 \in { CmdLoaded(f, config, t) } } })

RunCmdOutcomes == [builder : {Nil, ErrBuilder}, runner : RunOutcomes]

DoRunCmd ==
    /\ clock + 2 <= MaxClock
    /\ \E config \in RunConfigs, out \in RunCmdOutcomes :
         \E r \in {runRun(fs, config, out, clock)} :
            /\ fs' = r.fs
            /\ clock' = clock + 2
            /\ last' = [Observed("run", [config |-> config, out |-> out], r, fs)
                           EXCEPT !.built = BuiltAtDecision(fs, config, clock)]
            /\ dirty' = dirty
            /\ UNCHANGED mvars
            /\ UNCHANGED wvars
            /\ UNCHANGED rvars

RunCmdNext == DoCreate \/ DoBuild \/ UserModifies \/ DoRunCmd

SpecRunCmd == LifecycleInit /\ [][RunCmdNext]_vars

\* The command observed got as far as its build decision.
Decided(l) ==
    /\ l.op = "run"
    /\ l.load.err = Nil
    /\ Initialized(l.load.f)
    /\ (l.in.config.Build = "auto" \/ ParseBool(l.in.config.Build).err = Nil)

StageErrs(l, name) == {l.stages[i].err : i \in {j \in 1..Len(l.stages) : l.stages[j].stage = name}}

\* C33: the run command with --build=auto calls Build if and only if Built
\* answered false at that moment, with a true --build always and with a
\* false one never; the Runner is called only after any Build made has
\* returned success, and a failed Build is the command's error, with no
\* Runner call and no Job.
C33_RunBuildsWhenStale ==
    Decided(last) =>
        LET flag == last.in.config.Build
            built == StageErrs(last, "Build") # {}
        IN  /\ flag = "auto" => (built <=> ~last.built)
            /\ (flag # "auto" /\ ParseBool(flag).value) => built
            /\ (flag # "auto" /\ ~ParseBool(flag).value) => ~built
            /\ Len(last.stages) <= 2
            /\ Called("Runner.Run") =>
                   /\ StageErrs(last, "Build") \subseteq {Nil}
                   /\ last.stages[Len(last.stages)].stage = "Run"
                   /\ built => last.stages[1].stage = "Build"
            /\ StageErrs(last, "Build") \ {Nil} # {} =>
                   /\ last.err \in StageErrs(last, "Build")
                   /\ ~Called("Runner.Run")
                   /\ last.job = NoJob

\* run with --build=auto on a project built earlier whose Descriptor the
\* --env flags changed: Built answered false, Build ran and the Job started.
C33_Witness ==
    /\ Decided(last)
    /\ last.in.config.Build = "auto"
    /\ last.in.config.updated
    /\ Built(last.pre, ProjectRoot, 0)
    /\ ~last.built
    /\ last.calls = <<"Builder.Build", "Runner.Run">>
    /\ last.err = Nil

\* run with --build=auto on a built, unchanged project: no Build.
C33_WitnessFresh ==
    /\ Decided(last)
    /\ last.in.config.Build = "auto"
    /\ last.built
    /\ last.calls = <<"Runner.Run">>

\* run whose Build failed.
C33_WitnessFailed ==
    /\ Decided(last)
    /\ last.in.config.Build = "true"
    /\ last.err = ErrBuilder
    /\ last.calls = <<"Builder.Build">>

\* A Push that succeeded on a project for which Built answered true.
PushedWhenBuilt(l) ==
    /\ l.op = "Push"
    /\ l.err = Nil
    /\ l.calls = <<"Pusher.Push">>
    /\ Built(l.pre, ProjectRoot, 0)

\* C34: a Push that succeeds on a project for which Built answers true
\* leaves a project for which Built still answers true.
C34_PushKeepsBuilt == PushedWhenBuilt(last) => Built(fs, ProjectRoot, 0)

\* What the code does instead: the Push rewrote the descriptor file, whose
\* modification time is part of the fingerprint, and Built answers false.
C34_PushMakesStale ==
    PushedWhenBuilt(last) =>
        /\ ~Built(fs, ProjectRoot, 0)
        /\ SameStamp(fs, last.pre)
        /\ fs.mtime[FunctionFile] # last.pre.mtime[FunctionFile]

C34_Witness == PushedWhenBuilt(last) /\ fs.yaml.ImageDigest = "sha256:abc"

(***************************************************************************)
(* The run command as a process: runRun from its build decision on, under  *)
(* the command's context, with the tasks its Build and Run start and the   *)
(* Job it waits on.  wop.build is the build decision, wop.ending the way   *)
(* the context ends if it does.                                            *)
(***************************************************************************)
ErrDeadline == <<"context", "deadline", "exceeded">>

ErrJob == <<"job", "exited">>

\* A context error that is always nil.
ContextErrNil(ending) == Nil

\* What runRun returns when the context is done: cmd.Context().Err() unless
\* that is context.Canceled.
ContextErr(ending) == IF ending = "canceled" THEN Nil ELSE ErrDeadline

RunJobInit ==
    /\ wop \in [op : {"run"}, verbose : BOOLEAN, build : BOOLEAN, ending : {"canceled", "deadline"}]
    /\ wpc = [at |-> "build", inflight |-> FALSE, job |-> "none", stops |-> 0]
    /\ wctx = "live"
    /\ tasks = << >>
    /\ reporter = [stopping |-> 0, beats |-> 0]
    /\ wret = [done |-> FALSE, err |-> Nil, outcome |-> Nil]
    /\ MigrateIdle
    /\ RemoveIdle
    /\ LifecycleIdle

Task(owner, kind) == [owner |-> owner, kind |-> kind, st |-> "waiting", late |-> FALSE]

\* client.Build(cmd.Context(), config.Path) is entered: the heartbeat is
\* started unless verbose, and the Builder is called.
CmdBuildBegins ==
    /\ wpc.at = "build"
    /\ wop.build
    /\ tasks' = IF wop.verbose THEN tasks ELSE Append(tasks, Task("Build", "heartbeat"))
    /\ wpc' = [wpc EXCEPT !.at = "building", !.inflight = TRUE]
    /\ UNCHANGED <<wop, wctx, reporter, wret>>
    /\ UNCHANGED <<mvars, rvars, lvars>>

\* client.Build returns: its error is the command's, success goes on to Run.
CmdBuildEnds ==
    /\ wpc.at = "building"
    /\ \E e \in {Nil, ErrBuilder} :
         IF e # Nil
           THEN /\ wret' = [done |-> TRUE, err |-> e, outcome |-> e]
                /\ wpc' = [wpc EXCEPT !.at = "returned", !.inflight = FALSE]
           ELSE /\ wret' = wret
                /\ wpc' = [wpc EXCEPT !.at = "run", !.inflight = FALSE]
    /\ UNCHANGED <<wop, wctx, tasks, reporter>>
    /\ UNCHANGED <<mvars, rvars, lvars>>

\* The build decision is not to build.
CmdSkipsBuild ==
    /\ wpc.at = "build"
    /\ ~wop.build
    /\ wpc' = [wpc EXCEPT !.at = "run"]
    /\ UNCHANGED <<wop, wctx, tasks, reporter, wret>>
    /\ UNCHANGED <<mvars, rvars, lvars>>

\* job, err := client.Run(cmd.Context(), config.Path): Run starts its
\* watcher and the Runner returns a Job or an error; defer job.Stop().
CmdRuns ==
    /\ wpc.at = "run"
    /\ tasks' = Append(tasks, Task("Run", "watcher"))
    /\ \E e \in {Nil, ErrRunner} :
         IF e # Nil
           THEN /\ wret' = [done |-> TRUE, err |-> e, outcome |-> e]
                /\ wpc' = [wpc EXCEPT !.at = "returned"]
           ELSE /\ wret' = wret
                /\ wpc' = [wpc EXCEPT !.at = "wait", !.job = "running"]
    /\ UNCHANGED <<wop, wctx, reporter>>
    /\ UNCHANGED <<mvars, rvars, lvars>>

\* The running function exits: the Job puts an error on job.Errors.
JobFails ==
    /\ wpc.job = "running"
    /\ wpc.at = "wait"
    /\ wpc' = [wpc EXCEPT !.job = "erred"]
    /\ UNCHANGED <<wop, wctx, tasks, reporter, wret>>
    /\ UNCHANGED <<mvars, rvars, lvars>>

\* The command returns err, the deferred job.Stop() running on the way out.
CmdReturns(err, from) ==
    /\ wret' = [done |-> TRUE, err |-> err, outcome |-> from]
    /\ wpc' = [wpc EXCEPT !.at = "returned", !.stops = @ + 1]
    /\ UNCHANGED <<wop, wctx, tasks, reporter>>
    /\ UNCHANGED <<mvars, rvars, lvars>>

\* select: case <-cmd.Context().Done()
CmdSeesDone ==
    /\ wpc.at = "wait"
    /\ wctx = "done"
    /\ CmdReturns(ContextErr(wop.ending), <<"context">>)

\* select: case err = <-job.Errors
CmdSeesJobError ==
    /\ wpc.at = "wait"
    /\ wpc.job = "erred"
    /\ CmdReturns(ErrJob, <<"job">>)

RunJobNext ==
    \/ CmdBuildBegins
    \/ CmdBuildEnds
    \/ CmdSkipsBuild
    \/ CmdRuns
    \/ JobFails
    \/ CmdSeesDone
    \/ CmdSeesJobError
    \/ Cancel
    \/ WatcherFires
    \/ HeartbeatTick

SpecRunJob == RunJobInit /\ [][RunJobNext]_vars

\* C35: once Build has returned no heartbeat increment is emitted: none
\* while the command's Run is under way or its Job is running on the same
\* context.
C35_NoHeartbeatAfterBuild ==
    [][wpc.at \in {"run", "wait", "returned"} => reporter'.beats = reporter.beats]_vars

\* The heartbeat of the Build has emitted while the Job was running, the
\* context not being done.
C35_BeatsWhileRunning ==
    /\ wpc.at = "wait"
    /\ wpc.job = "running"
    /\ wctx = "live"
    /\ reporter.beats >= 1
    /\ ENABLED HeartbeatTick

\* C40: once the command has started a Job it stays in its select while
\* the context is live and the Job has delivered nothing; it returns nil
\* when the context was cancelled, the context's error when it ended
\* otherwise, and the Job's error when it took that from the Job; on each
\* of these returns job.Stop has been called exactly once, and not before.
C40_WaitsThenStopsOnce ==
    /\ (wpc.at = "wait" /\ wctx = "live" /\ wpc.job = "running")
           => (~wret.done /\ ~ENABLED CmdSeesDone /\ ~ENABLED CmdSeesJobError)
    /\ wpc.at = "wait" => (~wret.done /\ wpc.stops = 0 /\ wpc.job # "none")
    /\ (wret.done /\ wpc.job # "none") =>
           /\ wpc.stops = 1
           /\ \/ /\ wret.outcome = <<"context">>
                 /\ wctx = "done"
                 /\ wret.err = IF wop.ending = "canceled" THEN Nil ELSE ErrDeadline
              \/ /\ wret.outcome = <<"job">>
                 /\ wpc.job = "erred"
                 /\ wret.err = ErrJob
    /\ wpc.job = "none" => wpc.stops = 0

\* The command returned the deadline error and stopped the Job once.
C40_Witness ==
    /\ wret.done
    /\ wpc.job = "running"
    /\ wop.ending = "deadline"
    /\ wret.err = ErrDeadline
    /\ wpc.stops = 1

\* The command returned nil on cancellation although the Job had failed.
C40_WitnessBothReady ==
    /\ wret.done
    /\ wpc.job = "erred"
    /\ wop.ending = "canceled"
    /\ wret.err = Nil
    /\ wpc.stops = 1

\* The command returned the Job's error.
C40_WitnessJobError ==
    /\ wret.done
    /\ wret.err = ErrJob
    /\ wctx = "live"
    /\ wpc.stops = 1

\* The Deployer was called and returned the Failed status.
DeployerFailed(l) ==
    /\ l.op = "Deploy"
    /\ l.calls = <<"Deployer.Deploy">>
    /\ l.in.status = "Failed"

\* C36: a Deploy whose Deployer returned the Failed status, with or
\* without an error, returns an error.
C36_FailedStatusIsAnError == DeployerFailed(last) => last.err # Nil

\* What the code does instead: Deploy returns the Deployer's error whatever
\* the status, and reports no outcome for Failed.
C36_DeployReturnsDeployersError ==
    (last.op = "Deploy" /\ last.calls = <<"Deployer.Deploy">>) =>
        /\ last.err = last.in.err
        /\ DeployerFailed(last) => last.progress = <<Increment(DeployingMessage)>>

\* The Deployer returned Failed and no error, and Deploy returned nil.
C36_Witness == DeployerFailed(last) /\ last.in.err = Nil /\ last.err = Nil

\* How many times the operation observed called c.
TimesCalled(l, c) == Cardinality({i \in 1..Len(l.calls) : l.calls[i] = c})

\* The Remove observed had a name to remove: the one given, or that of an
\* initialized Descriptor loaded at the root.
Resolved(l) ==
    /\ l.op = "Remove"
    /\ \/ l.in.Name # ""
       \/ l.load.err = Nil /\ Initialized(l.load.f)

\* C37: a Remove that has a name calls the Remover exactly once, with that
\* name, whatever deleteAll is, and calls the PipelinesProvider's Remove
\* exactly once when deleteAll is set and not at all when it is not; a
\* Remove that has no name calls neither.
C37_RemoveCallsOnce ==
    /\ Resolved(last) =>
           /\ TimesCalled(last, "Remover.Remove") = 1
           /\ last.target = IF last.in.Name # "" THEN last.in.Name ELSE last.load.f.Name
           /\ last.target # ""
           /\ TimesCalled(last, "PipelinesProvider.Remove") = IF last.in.deleteAll THEN 1 ELSE 0
           /\ Len(last.calls) = IF last.in.deleteAll THEN 2 ELSE 1
    /\ (last.op = "Remove" /\ ~Resolved(last)) => last.calls = << >>

\* A Remove by the name of the loaded Descriptor, without deleteAll, whose
\* Remover failed.
C37_Witness ==
    /\ Resolved(last)
    /\ last.in.Name = ""
    /\ ~last.in.deleteAll
    /\ last.in.errResources # Nil
    /\ last.calls = <<"Remover.Remove">>
    /\ last.err = last.in.errService

\* A Remove by a given name with deleteAll.
C37_WitnessAll ==
    /\ Resolved(last)
    /\ last.in.Name = "g"
    /\ last.in.deleteAll
    /\ TimesCalled(last, "PipelinesProvider.Remove") = 1

(***************************************************************************)
(* The ignore file.  fs.ignore holds the lines of the root's .gitignore    *)
(* (none when the file is absent); the user adds rules of their own to it. *)
(***************************************************************************)
UserRules == {"node_modules", "*.log"}

HasLine(lines, rule) == \E i \in 1..Len(lines) : lines[i] = rule

\* The user appends a rule to the ignore file, creating it if need be.
UserAddsIgnoreRule ==
    /\ clock < MaxClock
    /\ \E rule \in UserRules :
        /\ ~HasLine(fs.ignore, rule)
        /\ fs' = [fs EXCEPT !.mtime = WriteFileAt(fs.mtime, GitIgnore, clock),
                            !.ignore = Append(@, rule)]
        /\ clock' = clock + 1
        /\ dirty' = dirty \cup {GitIgnore}
        /\ last' = Observed("Ignore", rule, Ret(fs, Nil, << >>, NoResult(EmptyFunction(ProjectRoot))), fs)
    /\ UNCHANGED mvars
    /\ UNCHANGED wvars
    /\ UNCHANGED rvars

IgnoreNext == DoCreate \/ DoBuild \/ UserAddsIgnoreRule

SpecIgnore == LifecycleInit /\ [][IgnoreNext]_vars

\* The operation observed went through ensureRuntimeDir: a Create that
\* reached its templates, or a Build whose Builder succeeded.
EnsuredRuntimeDir(l) ==
    \/ l.op = "Create" /\ l.calls = <<"Templates.Write">>
    \/ l.op = "Build" /\ l.calls = <<"Builder.Build">> /\ l.in = Nil

\* C38: ensuring the run data directory leaves the ignore rule for it in
\* the ignore file, keeps every line the file had, and leaves a file that
\* already had the rule as it was.
C38_IgnoreFilePreserved ==
    EnsuredRuntimeDir(last) =>
        /\ HasLine(fs.ignore, "/.func")
        /\ \A i \in 1..Len(last.pre.ignore) : HasLine(fs.ignore, last.pre.ignore[i])
        /\ HasLine(last.pre.ignore, "/.func") =>
               (fs.ignore = last.pre.ignore
                   /\ fs.mtime[GitIgnore] = last.pre.mtime[GitIgnore])

\* What the code does instead: the file is written anew with the fixed
\* lines each time, whatever it held.
C38_IgnoreFileOverwritten ==
    EnsuredRuntimeDir(last) =>
        /\ fs.ignore = gitignore
        /\ Exists(last.pre, GitIgnore) => fs.mtime[GitIgnore] > last.pre.mtime[GitIgnore]

\* A Build on a project to whose ignore file the user had added a rule,
\* which is gone after the Build.
C38_Witness ==
    /\ EnsuredRuntimeDir(last)
    /\ last.op = "Build"
    /\ HasLine(last.pre.ignore, "node_modules")
    /\ HasLine(last.pre.ignore, "/.func")
    /\ ~HasLine(fs.ignore, "node_modules")

\* The background tasks started that have not ended.
LiveTasks == {i \in 1..Len(tasks) : tasks[i].st # "ended"}

\* C39: once the operation has returned, every background task it started
\* comes to its end, whether or not the context is ever cancelled.
C39_TasksEndAfterReturn == wret.done ~> (LiveTasks = {})

\* What the code does instead: a task ends only by observing the context
\* done; once the context is done every task ends, and while it is live
\* none has ended.
C39_TasksEndOnlyOnDone ==
    /\ [](wctx = "live" => LiveTasks = 1..Len(tasks))
    /\ (wctx = "done" /\ wret.done) ~> (LiveTasks = {})

\* A New has returned under a live context with its three tasks waiting.
C39_Witness ==
    /\ wop.op = "New"
    /\ wret.done
    /\ wctx = "live"
    /\ Cardinality(LiveTasks) = 3
=============================================================================
